---- MODULE Spec2Model ----
(***************************************************************************)
(* A model of the Todo API's cache layer: the CacheService of              *)
(* app/services/cache_service.py (key derivation, JSON encoding, the       *)
(* fail-open wrapper around the Redis client) and the request handlers of  *)
(* app/routers/todos.py that use it in front of the durable store.         *)
(*                                                                         *)
(* The specifications share the variables:                                 *)
(*   Spec       the HTTP handlers, run one request at a time               *)
(*   SpecCache  direct calls of the CacheService methods                   *)
(*   SpecKey    the pure key derivation applied to drawn inputs            *)
(*   SpecTasks, SpecRequests  cache operations and request handlers as     *)
(*              coroutines, interleaved at their calls                     *)
(*   SpecPaging the pagination arithmetic applied to drawn integers        *)
(***************************************************************************)
EXTENDS Integers, Sequences, FiniteSets, TLC

VARIABLES
    store,          \* the durable store: id -> record, for the ids present
    redis,          \* the cache backend: key -> [val, ttl], for the keys present
    redis_client,   \* CacheService.redis_client: "None" or "client"
    is_connected,   \* CacheService.is_connected
    last,           \* the last call: what was asked, what came back, the backend commands
    tasks           \* the coroutines in flight: task -> where it is suspended, its locals

vars == <<store, redis, redis_client, is_connected, last, tasks>>

-----------------------------------------------------------------------------
(* Bounds of the model *)

\* the store holds todos with ids 1..MaxId
MaxId == 1
\* ids the direct calls of the service use
MaxCacheId == 1
\* the round trips of one call that may raise are among its first MaxCalls
MaxCalls == 3
\* the round trips of one request that may raise are among its first MaxRequestCalls
MaxRequestCalls == 2
\* the filter dicts given to the key derivation hold at most MaxFilterKeys keys
MaxFilterKeys == 2

-----------------------------------------------------------------------------
(* Python values.  One record shape for all of them, so that any two can   *)
(* be compared: t is the type, the other fields hold the payload.          *)

Blank == [t |-> "none", b |-> FALSE, n |-> 0, s |-> "", items |-> <<>>, kv |-> <<>>]

PyNone == Blank
PyBool(x) == [Blank EXCEPT !.t = "bool", !.b = x]
PyInt(x) == [Blank EXCEPT !.t = "int", !.n = x]
PyStr(x) == [Blank EXCEPT !.t = "str", !.s = x]
\* a datetime.date: not a JSON type; str() of it is x
PyDate(x) == [Blank EXCEPT !.t = "date", !.s = x]
\* a member of a (str, Enum) class such as Priority, whose value is x
PyEnum(x) == [Blank EXCEPT !.t = "enum", !.s = x]
PyList(xs) == [Blank EXCEPT !.t = "list", !.items = xs]
\* a list that holds itself: json.dumps raises ValueError (circular reference)
PyCyclic == [Blank EXCEPT !.t = "cyclic"]
\* a dict keeps its insertion order: a sequence of <<key, value>> pairs
PyDict(ps) == [Blank EXCEPT !.t = "dict", !.kv = ps]

\* bool(v), as in "if cached_todo:" and "if result:"
Truthy(v) ==
    CASE v.t = "none" -> FALSE
      [] v.t = "bool" -> v.b
      [] v.t = "int" -> v.n # 0
      [] v.t = "str" -> v.s # ""
      [] v.t = "enum" -> v.s # ""
      [] v.t = "date" -> TRUE
      [] v.t = "list" -> v.items # <<>>
      [] v.t = "dict" -> v.kv # <<>>

\* d.get(k) on a dict value: the value under k, None when absent
DictGet(d, k) ==
    IF \E i \in 1..Len(d.kv) : d.kv[i][1] = k
    THEN d.kv[CHOOSE i \in 1..Len(d.kv) : d.kv[i][1] = k][2]
    ELSE PyNone

DictKeys(d) == {d.kv[i][1] : i \in 1..Len(d.kv)}

\* Python's == on two values: dicts compare as mappings, whatever the order
RECURSIVE PyEq(_, _)
PyEq(a, b) ==
    CASE a.t = "dict" /\ b.t = "dict" ->
            /\ DictKeys(a) = DictKeys(b)
            /\ \A k \in DictKeys(a) : PyEq(DictGet(a, k), DictGet(b, k))
      [] a.t = "list" /\ b.t = "list" ->
            /\ Len(a.items) = Len(b.items)
            /\ \A i \in 1..Len(a.items) : PyEq(a.items[i], b.items[i])
      [] OTHER -> a = b

-----------------------------------------------------------------------------
(* JSON text is a sequence of tokens: "{", "}", "[", "]", ":", ",",        *)
(* null, true, false, a number, or a string in its double quotes.          *)

Quote(s) == "\"" \o s \o "\""

\* the order of Python's sorted() on the dict keys the program uses
KeyOrder == <<"completed", "due_date_from", "due_date_to", "filters", "id", "items", "page",
              "page_size", "pagination", "pending", "priority", "search",
              "sort_by", "sort_order", "title", "total">>

KeyRank(k) == CHOOSE i \in 1..Len(KeyOrder) : KeyOrder[i] = k

\* sorted(d.items()): the pairs by ascending key (keys are distinct)
SortItems(ps) ==
    LET rank == [i \in 1..Len(ps) |-> KeyRank(ps[i][1])]
        \* the place of the i-th pair: one past the number of keys that sort before its key
        place == [i \in 1..Len(ps) |-> Cardinality({j \in 1..Len(ps) : rank[j] < rank[i]}) + 1]
    IN  [p \in 1..Len(ps) |-> ps[CHOOSE i \in 1..Len(ps) : place[i] = p]]

RECURSIVE JsonDumps(_, _)
RECURSIVE DumpItems(_, _)
RECURSIVE DumpMembers(_, _)

\* json.dumps(v, sort_keys=sort_keys, default=str)
JsonDumps(v, sort_keys) ==
    CASE v.t = "none" -> <<"null">>
      [] v.t = "bool" -> <<IF v.b THEN "true" ELSE "false">>
      [] v.t = "int" -> <<ToString(v.n)>>
      [] v.t = "str" -> <<Quote(v.s)>>
      [] v.t = "enum" -> <<Quote(v.s)>>
      [] v.t = "date" -> <<Quote(v.s)>>
      [] v.t = "list" -> <<"[">> \o DumpItems(v.items, sort_keys) \o <<"]">>
      [] v.t = "dict" ->
            <<"{">> \o DumpMembers(IF sort_keys THEN SortItems(v.kv) ELSE v.kv, sort_keys)
                    \o <<"}">>

DumpItems(xs, sort_keys) ==
    IF xs = <<>> THEN <<>>
    ELSE JsonDumps(Head(xs), sort_keys)
         \o (IF Tail(xs) = <<>> THEN <<>> ELSE <<",">> \o DumpItems(Tail(xs), sort_keys))

DumpMembers(ps, sort_keys) ==
    IF ps = <<>> THEN <<>>
    ELSE <<Quote(Head(ps)[1]), ":">> \o JsonDumps(Head(ps)[2], sort_keys)
         \o (IF Tail(ps) = <<>> THEN <<>> ELSE <<",">> \o DumpMembers(Tail(ps), sort_keys))

\* the text as one string (what .encode() is applied to)
RECURSIVE Join(_)
Join(toks) == IF toks = <<>> THEN "" ELSE Head(toks) \o Join(Tail(toks))

Digits == <<"0", "1", "2", "3", "4", "5", "6", "7", "8", "9">>
IsDigit(c) == \E i \in 1..10 : Digits[i] = c
DigitVal(c) == (CHOOSE i \in 1..10 : Digits[i] = c) - 1

IsStringTok(h) ==
    Len(h) >= 2 /\ SubSeq(h, 1, 1) = "\"" /\ SubSeq(h, Len(h), Len(h)) = "\""

IsNatTok(h) == Len(h) >= 1 /\ \A i \in 1..Len(h) : IsDigit(SubSeq(h, i, i))

IsIntTok(h) ==
    \/ IsNatTok(h)
    \/ Len(h) >= 2 /\ SubSeq(h, 1, 1) = "-" /\ IsNatTok(SubSeq(h, 2, Len(h)))

RECURSIVE NatOf(_)
NatOf(h) ==
    IF Len(h) = 0 THEN 0
    ELSE 10 * NatOf(SubSeq(h, 1, Len(h) - 1)) + DigitVal(SubSeq(h, Len(h), Len(h)))

IntOf(h) == IF SubSeq(h, 1, 1) = "-" THEN 0 - NatOf(SubSeq(h, 2, Len(h))) ELSE NatOf(h)

NoParse == [ok |-> FALSE, val |-> PyNone, rest |-> <<>>]
Parsed(v, r) == [ok |-> TRUE, val |-> v, rest |-> r]

RECURSIVE ParseValue(_)
RECURSIVE ParseItems(_, _)
RECURSIVE ParseMembers(_, _)

ParseValue(toks) ==
    IF toks = <<>> THEN NoParse
    ELSE LET h == Head(toks)
             r == Tail(toks)
         IN  CASE h = "null" -> Parsed(PyNone, r)
               [] h = "true" -> Parsed(PyBool(TRUE), r)
               [] h = "false" -> Parsed(PyBool(FALSE), r)
               [] h = "[" ->
                    IF r # <<>> /\ Head(r) = "]" THEN Parsed(PyList(<<>>), Tail(r))
                    ELSE ParseItems(r, <<>>)
               [] h = "{" ->
                    IF r # <<>> /\ Head(r) = "}" THEN Parsed(PyDict(<<>>), Tail(r))
                    ELSE ParseMembers(r, <<>>)
               [] OTHER ->
                    IF IsStringTok(h) THEN Parsed(PyStr(SubSeq(h, 2, Len(h) - 1)), r)
                    ELSE IF IsIntTok(h) THEN Parsed(PyInt(IntOf(h)), r)
                    ELSE NoParse

ParseItems(toks, acc) ==
    LET p == ParseValue(toks) IN
    IF ~p.ok \/ p.rest = <<>> THEN NoParse
    ELSE IF Head(p.rest) = "]" THEN Parsed(PyList(Append(acc, p.val)), Tail(p.rest))
    ELSE IF Head(p.rest) = "," THEN ParseItems(Tail(p.rest), Append(acc, p.val))
    ELSE NoParse

ParseMembers(toks, acc) ==
    IF Len(toks) < 2 \/ ~IsStringTok(toks[1]) \/ toks[2] # ":" THEN NoParse
    ELSE LET k == SubSeq(toks[1], 2, Len(toks[1]) - 1)
             p == ParseValue(Tail(Tail(toks)))
         IN  IF ~p.ok \/ p.rest = <<>> THEN NoParse
             ELSE IF Head(p.rest) = "}"
                  THEN Parsed(PyDict(Append(acc, <<k, p.val>>)), Tail(p.rest))
             ELSE IF Head(p.rest) = ","
                  THEN ParseMembers(Tail(p.rest), Append(acc, <<k, p.val>>))
             ELSE NoParse

\* json.loads(text): ok is FALSE where it raises JSONDecodeError
JsonLoads(toks) ==
    LET p == ParseValue(toks) IN
    IF p.ok /\ p.rest = <<>> THEN [ok |-> TRUE, val |-> p.val]
    ELSE [ok |-> FALSE, val |-> PyNone]

-----------------------------------------------------------------------------
(* Program constants *)

\* settings.cache_ttl, copied to CacheService.default_ttl
default_ttl == 30
\* the ttl get_todo_statistics passes for "todos:stats"
stats_ttl == 60

-----------------------------------------------------------------------------
(* The Redis server and client, as the service uses them.                  *)
(*                                                                         *)
(* A call of the service is evaluated on a record c:                       *)
(*   redis, client, conn  the backend contents, self.redis_client,         *)
(*                        self.is_connected                                *)
(*   n, F     backend round trips made so far in this call, and the set of *)
(*            round trips (by number) that raise a connection error        *)
(*   trace    the commands issued, in order                                *)
(*   ret      what the last client call returned                           *)
(*   res      what the method returns                                      *)
(*   exc      an exception is propagating                                  *)

NoExpiry == 0 - 1

Ev(cmd, keys, ttl, ok) == [cmd |-> cmd, keys |-> keys, ttl |-> ttl, ok |-> ok]

Raises(c) == (c.n + 1) \in c.F

\* a round trip that raised
Broken(c, cmd, keys, ttl) ==
    [c EXCEPT !.n = @ + 1, !.exc = TRUE, !.trace = Append(@, Ev(cmd, keys, ttl, FALSE))]

\* a round trip that was answered
Answered(c, cmd, keys, ttl, ret) ==
    [c EXCEPT !.n = @ + 1, !.ret = ret, !.trace = Append(@, Ev(cmd, keys, ttl, TRUE))]

Without(r, keys) == [k \in (DOMAIN r) \ keys |-> r[k]]
With(r, key, e) == [k \in (DOMAIN r) \cup {key} |-> IF k = key THEN e ELSE r[k]]

\* Redis glob matching, for patterns made of literal characters and '*'
RECURSIVE GlobMatch(_, _)
GlobMatch(pattern, key) ==
    IF Len(pattern) = 0 THEN Len(key) = 0
    ELSE IF SubSeq(pattern, 1, 1) = "*"
         THEN \/ Len(pattern) = 1
              \/ GlobMatch(SubSeq(pattern, 2, Len(pattern)), key)
              \/ Len(key) > 0 /\ GlobMatch(pattern, SubSeq(key, 2, Len(key)))
    ELSE /\ Len(key) > 0
         /\ SubSeq(key, 1, 1) = SubSeq(pattern, 1, 1)
         /\ GlobMatch(SubSeq(pattern, 2, Len(pattern)), SubSeq(key, 2, Len(key)))

\* client.ping()
RedisPing(c) ==
    IF Raises(c) THEN Broken(c, "ping", {}, 0) ELSE Answered(c, "ping", {}, 0, TRUE)

\* client.get(key): the text, or None
RedisGet(c, key) ==
    IF Raises(c) THEN Broken(c, "get", {key}, 0)
    ELSE Answered(c, "get", {key}, 0,
                  IF key \in DOMAIN c.redis
                  THEN [hit |-> TRUE, text |-> c.redis[key].val]
                  ELSE [hit |-> FALSE, text |-> <<>>])

\* client.setex(key, ttl, text); the server refuses an expiration <= 0.  An entry
\* is the text, the time to live it was written with and the time units it has
\* been there (age)
RedisSetex(c, key, ttl, text) ==
    IF Raises(c) \/ ttl <= 0 THEN Broken(c, "setex", {key}, ttl)
    ELSE [Answered(c, "setex", {key}, ttl, TRUE)
            EXCEPT !.redis = With(c.redis, key, [val |-> text, ttl |-> ttl, age |-> 0])]

\* client.delete(*keys): the number of keys removed
RedisDelete(c, keys) ==
    IF Raises(c) THEN Broken(c, "delete", keys, 0)
    ELSE [Answered(c, "delete", keys, 0, Cardinality(keys \cap DOMAIN c.redis))
            EXCEPT !.redis = Without(c.redis, keys)]

\* scan_iter, were it called without match=pattern
RedisScanAll(c, pattern) ==
    IF Raises(c) THEN Broken(c, "scan", {pattern}, 0)
    ELSE Answered(c, "scan", {pattern}, 0, DOMAIN c.redis)

\* client.scan_iter(match=pattern, count=100), run to its end
RedisScan(c, pattern) ==
    IF Raises(c) THEN Broken(c, "scan", {pattern}, 0)
    ELSE Answered(c, "scan", {pattern}, 0,
                  {k \in DOMAIN c.redis : GlobMatch(pattern, k)})

\* client.info(...): answered or raised; what it returns is only reported
RedisInfo(c) ==
    IF Raises(c) THEN Broken(c, "info", {}, 0) ELSE Answered(c, "info", {}, 0, TRUE)

\* client.dbsize()
RedisDbsize(c) ==
    IF Raises(c) THEN Broken(c, "dbsize", {}, 0)
    ELSE Answered(c, "dbsize", {}, 0, Cardinality(DOMAIN c.redis))

-----------------------------------------------------------------------------
(* CacheService *)

\* redis.from_url(...): a new client object; nothing is sent yet
FromUrl(c) ==
    [c EXCEPT !.client = "client", !.trace = Append(@, Ev("from_url", {}, 0, TRUE))]

\* _get_redis_client, were its except clause to keep the handle that failed its ping
GetRedisClientKeepBroken(c) ==
    IF c.client # "None" THEN c
    ELSE LET p == RedisPing(FromUrl(c)) IN
         IF p.exc THEN [p EXCEPT !.exc = FALSE, !.conn = FALSE]
         ELSE [p EXCEPT !.conn = TRUE]

GetRedisClient(c) ==
    IF c.client # "None" THEN c
    ELSE LET p == RedisPing(FromUrl(c)) IN
         IF p.exc THEN [p EXCEPT !.exc = FALSE, !.client = "None", !.conn = FALSE]
         ELSE [p EXCEPT !.conn = TRUE]

\* the clause, were it to log, reset and raise again
FallbackExceptReraise(c) ==
    [c EXCEPT !.conn = FALSE, !.client = "None", !.res = PyNone]

\* the "except Exception" clause of _execute_with_fallback
FallbackExcept(c) ==
    [c EXCEPT !.exc = FALSE, !.conn = FALSE, !.client = "None", !.res = PyNone]

\* _get_operation, were it to leave a text it cannot decode where it is
GetOperationKeepCorrupt(c, key) ==
    LET g == RedisGet(c, key) IN
    IF g.exc THEN g
    ELSE IF ~g.ret.hit THEN [g EXCEPT !.res = PyNone]
    ELSE LET j == JsonLoads(g.ret.text) IN
         IF j.ok THEN [g EXCEPT !.res = j.val] ELSE [g EXCEPT !.res = PyNone]

\* _get_operation, were it to test "if not value" on the decoded value
GetOperationFalsyMiss(c, key) ==
    LET g == RedisGet(c, key) IN
    IF g.exc THEN g
    ELSE IF ~g.ret.hit THEN [g EXCEPT !.res = PyNone]
    ELSE LET j == JsonLoads(g.ret.text) IN
         IF j.ok THEN [g EXCEPT !.res = IF Truthy(j.val) THEN j.val ELSE PyNone]
         ELSE LET d == RedisDelete(g, {key}) IN
              IF d.exc THEN d ELSE [d EXCEPT !.res = PyNone]

\* _get_operation, were a hit to start the entry's time to live again (GETEX)
GetOperationSliding(c, key) ==
    LET g == RedisGet(c, key) IN
    IF g.exc THEN g
    ELSE IF ~g.ret.hit THEN [g EXCEPT !.res = PyNone]
    ELSE LET j == JsonLoads(g.ret.text) IN
         IF j.ok THEN [g EXCEPT !.res = j.val, !.redis[key].age = 0]
         ELSE LET d == RedisDelete(g, {key}) IN
              IF d.exc THEN d ELSE [d EXCEPT !.res = PyNone]

\* get._get_operation
GetOperation(c, key) ==
    LET g == RedisGet(c, key) IN
    IF g.exc THEN g
    ELSE IF ~g.ret.hit THEN [g EXCEPT !.res = PyNone]
    ELSE LET j == JsonLoads(g.ret.text) IN
         IF j.ok THEN [g EXCEPT !.res = j.val]
         ELSE LET d == RedisDelete(g, {key}) IN
              IF d.exc THEN d ELSE [d EXCEPT !.res = PyNone]

\* json.dumps(value, default=str) raises ValueError on a circular reference
RECURSIVE Serializable(_)
Serializable(v) ==
    /\ v.t # "cyclic"
    /\ \A i \in 1..Len(v.items) : Serializable(v.items[i])
    /\ \A i \in 1..Len(v.kv) : Serializable(v.kv[i][2])

\* client.set(key, text): a write with no expiration
RedisSet(c, key, text) ==
    IF Raises(c) THEN Broken(c, "set", {key}, NoExpiry)
    ELSE [Answered(c, "set", {key}, NoExpiry, TRUE)
            EXCEPT !.redis = With(c.redis, key, [val |-> text, ttl |-> NoExpiry, age |-> 0])]

\* _set_operation without its "except (TypeError, ValueError)"
SetOperationNoCatch(c, key, value, ttl) ==
    IF ~Serializable(value) THEN [c EXCEPT !.exc = TRUE]
    ELSE LET text == JsonDumps(value, FALSE)
             s == IF ttl # 0 THEN RedisSetex(c, key, ttl, text)
                  ELSE RedisSetex(c, key, default_ttl, text)
         IN  IF s.exc THEN s ELSE [s EXCEPT !.res = PyBool(s.ret)]

\* _set_operation, were its "else" branch a plain set
SetOperationPlainSet(c, key, value, ttl) ==
    IF ~Serializable(value) THEN [c EXCEPT !.res = PyBool(FALSE)]
    ELSE LET text == JsonDumps(value, FALSE)
             s == IF ttl # 0 THEN RedisSetex(c, key, ttl, text)
                  ELSE RedisSet(c, key, text)
         IN  IF s.exc THEN s ELSE [s EXCEPT !.res = PyBool(s.ret)]

\* set._set_operation; ttl is the int set() passes (effective_ttl)
SetOperation(c, key, value, ttl) ==
    IF ~Serializable(value) THEN [c EXCEPT !.res = PyBool(FALSE)]
    ELSE LET text == JsonDumps(value, FALSE)
             s == IF ttl # 0 THEN RedisSetex(c, key, ttl, text)
                  ELSE RedisSetex(c, key, default_ttl, text)
         IN  IF s.exc THEN s ELSE [s EXCEPT !.res = PyBool(s.ret)]

\* delete._delete_operation, were it to send the delete again when it raised
DeleteOperationRetry(c, key) ==
    LET d == RedisDelete(c, {key})
        e == IF d.exc THEN RedisDelete([d EXCEPT !.exc = FALSE], {key}) ELSE d
    IN  IF e.exc THEN e ELSE [e EXCEPT !.res = PyBool(e.ret > 0)]

\* delete._delete_operation
DeleteOperation(c, key) ==
    LET d == RedisDelete(c, {key}) IN
    IF d.exc THEN d ELSE [d EXCEPT !.res = PyBool(d.ret > 0)]

\* delete_pattern._delete_pattern_operation: its own "except Exception" returns 0
DeletePatternOperation(c, pattern) ==
    LET s == RedisScan(c, pattern) IN
    IF s.exc THEN [s EXCEPT !.exc = FALSE, !.res = PyInt(0)]
    ELSE IF s.ret # {}
         THEN LET d == RedisDelete(s, s.ret) IN
              IF d.exc THEN [d EXCEPT !.exc = FALSE, !.res = PyInt(0)]
              ELSE [d EXCEPT !.res = PyInt(d.ret)]
    ELSE [s EXCEPT !.res = PyInt(0)]

\* _execute_with_fallback: g is the service once _get_redis_client has returned, r
\* what "await operation(client, *args)" comes to from there; r is looked at only
\* when a client is held
ExecuteWithFallback(g, r) ==
    IF g.exc THEN FallbackExcept(g)
    ELSE IF g.client = "None" THEN [g EXCEPT !.res = PyNone]
    ELSE IF r.exc THEN FallbackExcept(r) ELSE r

Get(c, key) ==
    LET g == GetRedisClient(c) IN ExecuteWithFallback(g, GetOperation(g, key))

\* set(key, value, ttl); ttl is None or an int
Set(c, key, value, ttl) ==
    LET effective_ttl == IF ttl.t # "none" THEN ttl.n ELSE default_ttl
        g == GetRedisClient(c)
        r == ExecuteWithFallback(g, SetOperation(g, key, value, effective_ttl))
    IN  IF r.exc THEN r ELSE [r EXCEPT !.res = PyBool(Truthy(r.res))]

Delete(c, key) ==
    LET g == GetRedisClient(c)
        r == ExecuteWithFallback(g, DeleteOperation(g, key))
    IN
    IF r.exc THEN r ELSE [r EXCEPT !.res = PyBool(Truthy(r.res))]

DeletePattern(c, pattern) ==
    LET g == GetRedisClient(c)
        r == ExecuteWithFallback(g, DeletePatternOperation(g, pattern))
    IN
    IF r.exc THEN r ELSE [r EXCEPT !.res = IF Truthy(r.res) THEN r.res ELSE PyInt(0)]

\* _generate_todo_key, were the entity keys kept under the prefix of the lists
GenerateTodoKeyAmongLists(todo_id) == "todos:list:" \o ToString(todo_id)

GenerateTodoKey(todo_id) == "todo:" \o ToString(todo_id)

\* the comprehension without its "if v is not None"
NormalizedKeepNone(d) == PyDict(SortItems(d.kv))

\* {k: v for k, v in sorted(d.items()) if v is not None}
Normalized(d) ==
    PyDict(SelectSeq(SortItems(d.kv), LAMBDA kv : kv[2].t # "none"))

\* hashlib.md5(text).hexdigest()[:12], taken to be injective on the text: the
\* digest stands for the text it was computed from
Md5Hex(text) == text

\* _generate_list_key, were params built from the pagination alone
GenerateListKeyNoFilters(filters, pagination) ==
    LET params == PyDict(<< <<"pagination", Normalized(pagination)>> >>)
        params_str == Join(JsonDumps(params, TRUE))
    IN  "todos:list:" \o Md5Hex(params_str)

GenerateListKey(filters, pagination) ==
    LET params == PyDict(<< <<"filters", Normalized(filters)>>,
                            <<"pagination", Normalized(pagination)>> >>)
        params_str == Join(JsonDumps(params, TRUE))
    IN  "todos:list:" \o Md5Hex(params_str)

GetTodo(c, todo_id) == Get(c, GenerateTodoKey(todo_id))

CacheTodo(c, todo_id, todo_data, ttl) == Set(c, GenerateTodoKey(todo_id), todo_data, ttl)

\* json.dumps(params, sort_keys=True, default=str) in _generate_list_key returns:
\* it raises ValueError on a value that holds itself (the None values that the
\* normalisation drops are not of that kind)
ListKeyDerivable(filters, pagination) ==
    Serializable(filters) /\ Serializable(pagination)

\* get_todos_list: _generate_list_key is called outside every try
GetTodosList(c, filters, pagination) ==
    IF ~ListKeyDerivable(filters, pagination) THEN [c EXCEPT !.exc = TRUE]
    ELSE Get(c, GenerateListKey(filters, pagination))

\* cache_todos_list: as above
CacheTodosList(c, filters, pagination, list_data, ttl) ==
    IF ~ListKeyDerivable(filters, pagination) THEN [c EXCEPT !.exc = TRUE]
    ELSE Set(c, GenerateListKey(filters, pagination), list_data, ttl)

\* invalidate_all_lists, were its pattern "todos:*"
InvalidateAllListsEveryTodosKey(c) == DeletePattern(c, "todos:*")

InvalidateAllLists(c) == DeletePattern(c, "todos:list:*")

\* invalidate_todo, were it to stop at the entity key
InvalidateTodoEntityOnly(c, todo_id) == Delete(c, GenerateTodoKey(todo_id))

\* invalidate_todo, were it to report whether any key at all was removed
InvalidateTodoAnyRemoved(c, todo_id) ==
    LET d == Delete(c, GenerateTodoKey(todo_id)) IN
    IF d.exc THEN d
    ELSE LET l == InvalidateAllLists(d) IN
         IF l.exc THEN l ELSE [l EXCEPT !.res = PyBool(d.res.b \/ l.res.n > 0)]

InvalidateTodo(c, todo_id) ==
    LET d == Delete(c, GenerateTodoKey(todo_id)) IN
    IF d.exc THEN d
    ELSE LET l == InvalidateAllLists(d) IN
         IF l.exc THEN l ELSE [l EXCEPT !.res = d.res]

\* invalidate_all, were it to stop after the entity keys
InvalidateAllEntitiesOnly(c) == DeletePattern(c, "todo:*")

InvalidateAll(c) ==
    LET a == DeletePattern(c, "todo:*") IN
    IF a.exc THEN a
    ELSE LET b == DeletePattern(a, "todos:list:*") IN
         IF b.exc THEN b ELSE [b EXCEPT !.res = PyInt(a.res.n + b.res.n)]

\* get_cache_stats: every error is caught where it happens or by the outer except
GetCacheStats(c) ==
    LET none == PyDict(<< <<"total_keys", PyInt(0)>>, <<"todo_keys", PyInt(0)>>,
                          <<"list_keys", PyInt(0)>>, <<"memory_usage", PyStr("0B")>> >>)
        g == GetRedisClient(c)
    IN  IF g.client = "None" THEN [g EXCEPT !.res = none]
        ELSE LET d == RedisDbsize(g) IN
             IF d.exc THEN [d EXCEPT !.exc = FALSE, !.res = none]
             ELSE LET a == RedisScan(d, "todo:*")
                      b == IF a.exc THEN a ELSE RedisScan(a, "todos:list:*")
                      m == RedisInfo([b EXCEPT !.exc = FALSE])
                  IN  [m EXCEPT
                         !.exc = FALSE,
                         !.res = PyDict(<< <<"total_keys", PyInt(d.ret)>>,
                                           <<"todo_keys", PyInt(IF a.exc THEN 0 ELSE Cardinality(a.ret))>>,
                                           <<"list_keys", PyInt(IF b.exc THEN 0 ELSE Cardinality(b.ret))>>,
                                           <<"memory_usage",
                                             PyStr(IF m.exc THEN "Unknown" ELSE "used")>> >>)]

\* what health_check returns; error is None or the text of what went wrong
HealthStatus(status, connected, cache_stats, error) ==
    PyDict(<< <<"status", PyStr(status)>>, <<"connected", PyBool(connected)>>,
              <<"cache_stats", cache_stats>>, <<"error", error>> >>)

\* health_check, were it to take a handle it already holds for a live connection
HealthCheckTrustHandle(c) ==
    LET g == GetRedisClient(c) IN
    IF g.client = "None"
    THEN [g EXCEPT !.res = HealthStatus("unhealthy", FALSE, PyDict(<<>>),
                                        PyStr("Failed to establish Redis connection"))]
    ELSE IF c.client # "None"
    THEN [g EXCEPT !.res = HealthStatus("healthy", TRUE, PyDict(<<>>), PyNone)]
    ELSE LET p == RedisPing(g) IN
         IF p.exc
         THEN [p EXCEPT !.exc = FALSE,
                        !.res = HealthStatus("unhealthy", FALSE, PyDict(<<>>), PyStr("ping"))]
         ELSE [p EXCEPT !.res = HealthStatus("healthy", TRUE, PyDict(<<>>), PyNone)]

\* health_check: "healthy" as soon as the ping is answered; its except clause
\* reports the error and leaves the connection state as it is
HealthCheck(c) ==
    LET g == GetRedisClient(c) IN
    IF g.client = "None"
    THEN [g EXCEPT !.res = HealthStatus("unhealthy", FALSE, PyDict(<<>>),
                                        PyStr("Failed to establish Redis connection"))]
    ELSE LET p == RedisPing(g) IN
         IF p.exc
         THEN [p EXCEPT !.exc = FALSE,
                        !.res = HealthStatus("unhealthy", FALSE, PyDict(<<>>), PyStr("ping"))]
         ELSE LET i == RedisInfo(p) IN
              IF i.exc
              THEN [i EXCEPT !.exc = FALSE,
                             !.res = HealthStatus("healthy", TRUE, PyDict(<<>>), PyStr("info"))]
              ELSE LET s == GetCacheStats(i) IN
                   [s EXCEPT !.res = HealthStatus("healthy", TRUE, s.res, PyNone)]

-----------------------------------------------------------------------------
(* What the specifications record of the last call *)

NoCall ==
    [op |-> "init", key |-> "", id |-> 0, value |-> PyNone, ttl |-> PyNone,
     f |-> PyNone, p |-> PyNone, res |-> PyNone, raised |-> FALSE, status |-> 0,
     trace |-> <<>>]

\* the record a call starts from, with F the round trips that will raise
Begin(F) ==
    [redis |-> redis, client |-> redis_client, conn |-> is_connected,
     n |-> 0, F |-> F, trace |-> <<>>, ret |-> 0, res |-> PyNone, exc |-> FALSE]

FailurePatterns == SUBSET (1..MaxCalls)

\* the service's and the backend's state after the call, and the call's record;
\* a pattern is taken once: it names only round trips the call makes
Finish(c, call) ==
    \E r \in {c} :
    /\ r.F \subseteq 1..r.n
    /\ redis' = r.redis
    /\ redis_client' = r.client
    /\ is_connected' = r.conn
    /\ last' = [call EXCEPT !.res = r.res, !.raised = r.exc, !.trace = r.trace]
    /\ UNCHANGED tasks

-----------------------------------------------------------------------------
(* SpecCache: the methods of CacheService, called directly *)

TodoA == PyDict(<< <<"id", PyInt(1)>>, <<"title", PyStr("a")>>,
                   <<"completed", PyBool(FALSE)>> >>)

\* values of the JSON data model, the falsy ones among them
JsonValues ==
    {PyNone, PyBool(FALSE), PyDict(<<>>), TodoA, PyList(<<PyInt(-7), PyStr("")>>)}

\* values json.dumps only takes through default=str
ConvertedValues == {PyDict(<< <<"due_date_from", PyDate("2024-01-01")>> >>)}

Ttls == {PyNone, PyInt(0), PyInt(-1), PyInt(5)}

CachedValues == JsonValues \cup ConvertedValues

PageA == PyDict(<< <<"page", PyInt(1)>>, <<"page_size", PyInt(10)>> >>)

ListParams ==
    {[f |-> PyDict(<< <<"priority", PyNone>>, <<"completed", PyBool(FALSE)>> >>), p |-> PageA],
     [f |-> PyDict(<< <<"completed", PyBool(TRUE)>> >>), p |-> PageA]}

ListA == PyDict(<< <<"items", PyList(<<TodoA>>)>>, <<"total", PyInt(1)>> >>)

PlainKeys == {"todos:stats"}

\* texts json.loads rejects
CorruptTexts == {<<"{", "\"id\"">>}

CacheIds == 1..MaxCacheId

CallGet(key, F) ==
    /\ Finish(Get(Begin(F), key), [NoCall EXCEPT !.op = "get", !.key = key])
    /\ UNCHANGED store

CallSet(key, value, ttl, F) ==
    /\ Finish(Set(Begin(F), key, value, ttl),
              [NoCall EXCEPT !.op = "set", !.key = key, !.value = value, !.ttl = ttl])
    /\ UNCHANGED store

CallDelete(key, F) ==
    /\ Finish(Delete(Begin(F), key), [NoCall EXCEPT !.op = "delete", !.key = key])
    /\ UNCHANGED store

CallDeletePattern(pattern, F) ==
    /\ Finish(DeletePattern(Begin(F), pattern),
              [NoCall EXCEPT !.op = "delete_pattern", !.key = pattern])
    /\ UNCHANGED store

CallGetTodo(id, F) ==
    /\ Finish(GetTodo(Begin(F), id), [NoCall EXCEPT !.op = "get_todo", !.id = id, !.key = GenerateTodoKey(id)])
    /\ UNCHANGED store

CallCacheTodo(id, value, ttl, F) ==
    /\ Finish(CacheTodo(Begin(F), id, value, ttl),
              [NoCall EXCEPT !.op = "cache_todo", !.id = id, !.key = GenerateTodoKey(id),
                             !.value = value, !.ttl = ttl])
    /\ UNCHANGED store

CallGetTodosList(f, p, F) ==
    /\ Finish(GetTodosList(Begin(F), f, p),
              [NoCall EXCEPT !.op = "get_todos_list", !.f = f, !.p = p,
                             !.key = IF ListKeyDerivable(f, p)
                                     THEN GenerateListKey(f, p) ELSE ""])
    /\ UNCHANGED store

CallCacheTodosList(f, p, value, ttl, F) ==
    /\ Finish(CacheTodosList(Begin(F), f, p, value, ttl),
              [NoCall EXCEPT !.op = "cache_todos_list", !.f = f, !.p = p,
                             !.key = IF ListKeyDerivable(f, p)
                                     THEN GenerateListKey(f, p) ELSE "",
                             !.value = value, !.ttl = ttl])
    /\ UNCHANGED store

CallInvalidateTodo(id, F) ==
    /\ Finish(InvalidateTodo(Begin(F), id),
              [NoCall EXCEPT !.op = "invalidate_todo", !.id = id, !.key = GenerateTodoKey(id)])
    /\ UNCHANGED store

CallInvalidateAllLists(F) ==
    /\ Finish(InvalidateAllLists(Begin(F)), [NoCall EXCEPT !.op = "invalidate_all_lists"])
    /\ UNCHANGED store

CallInvalidateAll(F) ==
    /\ Finish(InvalidateAll(Begin(F)), [NoCall EXCEPT !.op = "invalidate_all"])
    /\ UNCHANGED store

CallHealthCheck(F) ==
    /\ Finish(HealthCheck(Begin(F)), [NoCall EXCEPT !.op = "health_check"])
    /\ UNCHANGED store

CallGetCacheStats(F) ==
    /\ Finish(GetCacheStats(Begin(F)), [NoCall EXCEPT !.op = "get_cache_stats"])
    /\ UNCHANGED store

\* the backend drops an entry whose time to live has run out
Expire(key) ==
    /\ key \in DOMAIN redis
    /\ redis[key].ttl # NoExpiry
    /\ redis' = Without(redis, {key})
    /\ last' = [NoCall EXCEPT !.op = "expire", !.key = key]
    /\ UNCHANGED <<store, redis_client, is_connected, tasks>>

\* one time unit passes: every entry that expires is one unit older, and the
\* backend drops those whose time to live has run out
Tick ==
    /\ redis' = [k \in {j \in DOMAIN redis : redis[j].ttl = NoExpiry
                                              \/ redis[j].age + 1 < redis[j].ttl}
                  |-> IF redis[k].ttl = NoExpiry THEN redis[k]
                      ELSE [redis[k] EXCEPT !.age = @ + 1]]
    /\ last' = [NoCall EXCEPT !.op = "tick"]
    /\ UNCHANGED <<store, redis_client, is_connected, tasks>>

\* somebody writes text that is not JSON under a key, past the service
ManualWrite(key, text) ==
    /\ redis' = With(redis, key, [val |-> text, ttl |-> NoExpiry, age |-> 0])
    /\ last' = [NoCall EXCEPT !.op = "manual", !.key = key]
    /\ UNCHANGED <<store, redis_client, is_connected, tasks>>

-----------------------------------------------------------------------------
(* Reading the record of the last call *)

ReadOps == {"get", "get_todo", "get_todos_list"}
WriteOps == {"set", "cache_todo", "cache_todos_list"}
PatternOps == {"delete_pattern", "invalidate_all_lists", "invalidate_all"}
BaseOps == {"get", "set", "delete", "delete_pattern"}
ServiceOps == ReadOps \cup WriteOps \cup PatternOps \cup {"delete", "invalidate_todo"}

RoundTrips(call) == {i \in 1..Len(call.trace) : call.trace[i].cmd # "from_url"}

\* the backend answered every round trip of the call
NoFailure(call) == \A i \in RoundTrips(call) : call.trace[i].ok
\* some round trip of the call raised
SomeFailure(call) == \E i \in RoundTrips(call) : ~call.trace[i].ok
\* the call reached the backend and every round trip raised
AllFailed(call) ==
    /\ RoundTrips(call) # {}
    /\ \A i \in RoundTrips(call) : ~call.trace[i].ok

\* the service as it stands, facing a backend that answers
Now == Begin({})

IsListKey(k) == GlobMatch("todos:list:*", k)

-----------------------------------------------------------------------------
(* C2: with a backend that does not fail, once invalidate_todo(id) has     *)
(* returned, get_todo(id) is a miss and get_todos_list is a miss for every *)
(* (filters, pagination) pair, cached before or not, whether or not the    *)
(* entity key was there.                                                   *)
C2_InvalidateTodoComplete ==
    (last.op = "invalidate_todo" /\ NoFailure(last)) =>
        /\ GetTodo(Now, last.id).res = PyNone
        /\ \A lp \in ListParams : GetTodosList(Now, lp.f, lp.p).res = PyNone
        /\ \A k \in DOMAIN redis : ~IsListKey(k)

\* invalidate_todo found no entity key (it returned False) and removed cached lists
C2_Witness ==
    /\ last.op = "invalidate_todo" /\ NoFailure(last)
    /\ last.res = PyBool(FALSE)
    /\ \E i \in 1..Len(last.trace) :
          /\ last.trace[i].cmd = "delete"
          /\ \E k \in last.trace[i].keys : IsListKey(k)

(* C3: when every backend call raises, no method of the service lets an    *)
(* exception out: reads return None, writes and single deletes return      *)
(* False, pattern deletes return 0.                                        *)
C3_FailOpen ==
    (last.op \in ServiceOps /\ AllFailed(last)) =>
        /\ ~last.raised
        /\ last.op \in ReadOps => last.res = PyNone
        /\ last.op \in WriteOps \cup {"delete", "invalidate_todo"} => last.res = PyBool(FALSE)
        /\ last.op \in PatternOps => last.res = PyInt(0)

\* invalidate_todo on a held client: the delete raised, then the reconnection's ping
C3_Witness ==
    /\ last.op = "invalidate_todo" /\ AllFailed(last)
    /\ Len(last.trace) = 3
    /\ last.trace[1].cmd = "delete" /\ last.trace[3].cmd = "ping"

(* C4: after a backend error raised during get, set, delete or             *)
(* delete_pattern the service is not connected: is_connected is False and  *)
(* the client handle is dropped.                                           *)
C4_ErrorResetsConnection ==
    (last.op \in BaseOps /\ SomeFailure(last)) =>
        (is_connected = FALSE /\ redis_client = "None")

(* C5: reconnection is lazy.  Only a call of the service changes the       *)
(* connection state; a call made with no handle starts by creating one and *)
(* pinging it, and when the backend answers, the call ends connected, with *)
(* the handle kept, and does its work (a write returns True).              *)
C5_Step ==
    /\ last'.op \notin ServiceOps => UNCHANGED <<redis_client, is_connected>>
    /\ (last'.op \in ServiceOps /\ redis_client = "None") =>
          /\ Len(last'.trace) >= 2
          /\ last'.trace[1].cmd = "from_url"
          /\ last'.trace[2].cmd = "ping"
    /\ (last'.op \in ServiceOps /\ NoFailure(last')) =>
          /\ is_connected' = TRUE /\ redis_client' = "client"
          /\ (last'.op \in WriteOps /\ Serializable(last'.value)) => last'.res = PyBool(TRUE)
          /\ last'.op = "get" => last'.key \notin DOMAIN redis \/ last'.res = JsonLoads(redis[last'.key].val).val

C5_LazyReconnect == [][C5_Step]_vars

\* within invalidate_todo: the delete raised (reset), the next operation made a new
\* handle, pinged it and ran connected
C5_Witness ==
    /\ last.op = "invalidate_todo"
    /\ Len(last.trace) >= 4
    /\ last.trace[1].cmd = "delete" /\ ~last.trace[1].ok
    /\ last.trace[2].cmd = "from_url"
    /\ last.trace[3].cmd = "ping" /\ last.trace[3].ok
    /\ last.trace[4].cmd = "scan" /\ last.trace[4].ok
    /\ is_connected /\ redis_client = "client"

(* C6: with a backend that does not fail, cache_todo(id, V) followed at    *)
(* once by get_todo(id) returns a value equal to V, for every value V of   *)
(* the JSON data model, the falsy ones included.                           *)
C6_RoundTrip ==
    (last.op = "cache_todo" /\ NoFailure(last) /\ last.value \in JsonValues) =>
        /\ last.res = PyBool(TRUE)
        /\ PyEq(GetTodo(Now, last.id).res, last.value)

\* an empty mapping was cached
C6_Witness ==
    /\ last.op = "cache_todo" /\ NoFailure(last)
    /\ last.value = PyDict(<<>>)
    /\ last.res = PyBool(TRUE)

(* C9: when the backend holds text that is not JSON under a key, a read of *)
(* that key returns a miss and, the backend not failing, the key is gone   *)
(* when the call returns.                                                  *)
C9_Step ==
    (/\ last'.op \in ReadOps
     /\ NoFailure(last')
     /\ last'.key \in DOMAIN redis
     /\ ~JsonLoads(redis[last'.key].val).ok)
    => (last'.res = PyNone /\ last'.key \notin DOMAIN redis')

C9_CorruptSelfHeal == [][C9_Step]_vars

\* get_todo fetched the text, could not decode it and deleted the key
C9_Witness ==
    /\ last.op = "get_todo" /\ NoFailure(last)
    /\ \E i \in 1..(Len(last.trace) - 1) :
          /\ last.trace[i].cmd = "get"
          /\ last.trace[i + 1].cmd = "delete"
    /\ last.res = PyNone
    /\ last.key \notin DOMAIN redis

(* C10: every entry the service writes carries a finite expiration: the    *)
(* only write command is setex, with a positive time to live, and when the *)
(* caller passes no ttl that time is default_ttl.                          *)
C10_FiniteTtl ==
    last.op \in ServiceOps =>
        \A i \in 1..Len(last.trace) :
            /\ last.trace[i].cmd # "set"
            /\ (last.trace[i].cmd = "setex" /\ last.trace[i].ok) =>
                  /\ last.trace[i].ttl > 0
                  /\ last.trace[i].keys = {last.key}
                  /\ redis[last.key].ttl = last.trace[i].ttl
                  /\ last.ttl = PyNone => last.trace[i].ttl = default_ttl

\* set() was called with no ttl and wrote
C10_Witness ==
    /\ last.op = "set" /\ last.ttl = PyNone
    /\ last.res = PyBool(TRUE)
    /\ last.key \in DOMAIN redis

(* C11: a value stored by set or cache_todo with ttl = T is returned by a  *)
(* get issued before T has elapsed and is a miss for every get issued      *)
(* after it, no other write to the key coming between; a hit does not      *)
(* extend the entry's remaining lifetime.  Step by step: a write starts    *)
(* the entry at age 0 with time to live T; only the passing of time        *)
(* changes an entry that is not written, by one unit, and the entry is     *)
(* there exactly while its age is below T; a read returns the stored       *)
(* value when the entry is there, a miss when it is not, and leaves every  *)
(* entry as it was.                                                        *)
C11_Step ==
    /\ \A k \in DOMAIN redis' : redis'[k].age < redis'[k].ttl
    /\ last'.op \in WriteOps =>
          /\ last'.res = PyBool(TRUE)
          /\ redis'[last'.key] =
                [val |-> JsonDumps(last'.value, FALSE),
                 ttl |-> IF last'.ttl = PyNone THEN default_ttl ELSE last'.ttl.n,
                 age |-> 0]
    /\ last'.op \in ReadOps =>
          /\ redis' = redis
          /\ IF last'.key \in DOMAIN redis
             THEN PyEq(last'.res, JsonLoads(redis[last'.key].val).val) /\ last'.res # PyNone
             ELSE last'.res = PyNone
    /\ \A k \in DOMAIN redis :
          (last'.op \notin WriteOps \/ last'.key # k) =>
             LET elapsed == IF last'.op = "tick" THEN 1 ELSE 0 IN
             IF redis[k].age + elapsed < redis[k].ttl
             THEN k \in DOMAIN redis' /\ redis'[k] = [redis[k] EXCEPT !.age = @ + elapsed]
             ELSE k \notin DOMAIN redis'

C12_ExactTtl ==
    (last.op = "set" /\ last.ttl # PyNone) =>
        /\ \A i \in 1..Len(last.trace) :
              last.trace[i].cmd = "setex" => last.trace[i].ttl = last.ttl.n
        /\ last.res = PyBool(TRUE) => redis[last.key].ttl = last.ttl.n

(* C13: with a backend that does not fail and holds N keys matching the   *)
(* pattern, delete_pattern(pattern) removes exactly those N keys, leaves   *)
(* every other key with its value and expiration, and returns N; when      *)
(* nothing matches it returns 0 and sends no delete.                       *)
C13_Step ==
    (last'.op = "delete_pattern" /\ NoFailure(last')) =>
        LET matching == {k \in DOMAIN redis : GlobMatch(last'.key, k)} IN
        /\ redis' = Without(redis, matching)
        /\ last'.res = PyInt(Cardinality(matching))
        /\ matching = {} =>
              \A i \in 1..Len(last'.trace) : last'.trace[i].cmd # "delete"

C13_DeletePatternFrame == [][C13_Step]_vars

\* two keys or more matched and were removed, and a key that did not match is left
C13_Witness ==
    /\ last.op = "delete_pattern" /\ NoFailure(last)
    /\ last.res.n >= 2
    /\ DOMAIN redis # {}

(* C14: with a backend that does not fail, once invalidate_all has        *)
(* returned no key 'todo:<id>' and no key 'todos:list:<fingerprint>' is    *)
(* left, and the number returned is the sum of the two deletion counts.    *)
C14_Step ==
    (last'.op = "invalidate_all" /\ NoFailure(last')) =>
        LET todos == {k \in DOMAIN redis : GlobMatch("todo:*", k)}
            lists == {k \in DOMAIN redis : GlobMatch("todos:list:*", k)}
        IN  /\ \A k \in DOMAIN redis' :
                  ~GlobMatch("todo:*", k) /\ ~GlobMatch("todos:list:*", k)
            /\ last'.res = PyInt(Cardinality(todos) + Cardinality(lists))

C14_InvalidateAll == [][C14_Step]_vars

\* an entity key and a list key were there: two deletes were sent
C14_Witness ==
    /\ last.op = "invalidate_all" /\ NoFailure(last)
    /\ last.res.n >= 2
    /\ \E i, j \in 1..Len(last.trace) :
          /\ i < j
          /\ last.trace[i].cmd = "delete" /\ last.trace[i].keys = {GenerateTodoKey(1)}
          /\ last.trace[j].cmd = "delete" /\ \A k \in last.trace[j].keys : IsListKey(k)

(* C21: health_check never raises; when no connection can be established *)
(* it returns status 'unhealthy', connected False and an error that is not *)
(* None; it returns status 'healthy' with connected True only when its     *)
(* ping was answered.                                                      *)
C21_HealthCheck ==
    last.op = "health_check" =>
        LET pings == {i \in 1..Len(last.trace) : last.trace[i].cmd = "ping"}
            status == DictGet(last.res, "status")
            connected == DictGet(last.res, "connected")
        IN  /\ ~last.raised
            /\ status \in {PyStr("healthy"), PyStr("unhealthy")}
            /\ redis_client = "None" =>
                  /\ status = PyStr("unhealthy")
                  /\ connected = PyBool(FALSE)
                  /\ DictGet(last.res, "error") # PyNone
            /\ (status = PyStr("healthy") \/ connected = PyBool(TRUE)) =>
                  /\ status = PyStr("healthy") /\ connected = PyBool(TRUE)
                  /\ pings # {}
                  /\ \A i \in pings : last.trace[i].ok

\* no connection could be made: the ping of the new handle raised
C21_Witness ==
    /\ last.op = "health_check"
    /\ redis_client = "None"
    /\ Len(last.trace) = 2 /\ last.trace[2].cmd = "ping" /\ ~last.trace[2].ok
    /\ DictGet(last.res, "status") = PyStr("unhealthy")

(* C22: if deriving the list key fails (a filter or pagination value that *)
(* cannot be canonicalised), get_todos_list returns a miss and             *)
(* cache_todos_list returns False; neither raises, and nothing is written  *)
(* to the backend.                                                         *)
C22_KeyFailureIsMiss ==
    (last.op \in {"get_todos_list", "cache_todos_list"}
     /\ ~ListKeyDerivable(last.f, last.p)) =>
        /\ ~last.raised
        /\ last.op = "get_todos_list" => last.res = PyNone
        /\ last.op = "cache_todos_list" => last.res = PyBool(FALSE)
        /\ \A i \in 1..Len(last.trace) : last.trace[i].cmd \notin {"setex", "set"}

\* a write whose value json.dumps refuses, under a key that could be derived
UnserializableWrite(call) ==
    /\ call.op \in WriteOps
    /\ ~Serializable(call.value)
    /\ ListKeyDerivable(call.f, call.p)

(* C23, as stated: when the value passed to set, cache_todo or             *)
(* cache_todos_list cannot be serialised, the call returns False, writes   *)
(* nothing under the key (a previous entry and its expiration stay as they *)
(* were) and leaves the connection state (is_connected, the client handle) *)
(* unchanged.                                                              *)
C23_OriginalStep ==
    UnserializableWrite(last') =>
        /\ last'.res = PyBool(FALSE) /\ ~last'.raised
        /\ redis' = redis
        /\ UNCHANGED <<redis_client, is_connected>>

C23_ConnectionUntouched == [][C23_OriginalStep]_vars

(* C23, amended: such a call returns False, writes nothing and does not    *)
(* reset the connection.  A handle held before the call is kept, with      *)
(* is_connected as it was, and no command is sent; a call made with no     *)
(* handle still connects first: it creates a handle and pings it, and is   *)
(* connected afterwards exactly when the ping was answered.                *)
C23_AmendedStep ==
    UnserializableWrite(last') =>
        /\ last'.res = PyBool(FALSE) /\ ~last'.raised
        /\ redis' = redis
        /\ redis_client # "None" =>
              /\ UNCHANGED <<redis_client, is_connected>>
              /\ last'.trace = <<>>
        /\ redis_client = "None" =>
              /\ Len(last'.trace) = 2
              /\ last'.trace[1].cmd = "from_url" /\ last'.trace[2].cmd = "ping"
              /\ is_connected' = last'.trace[2].ok
              /\ redis_client' = (IF last'.trace[2].ok THEN "client" ELSE "None")

C23_NoWriteNoReset == [][C23_AmendedStep]_vars

\* set() with a value that holds itself, on a held handle, over an entry that stays
C23_Witness ==
    /\ last.op = "set" /\ last.value = PyCyclic
    /\ last.res = PyBool(FALSE)
    /\ last.trace = <<>>
    /\ last.key \in DOMAIN redis
    /\ redis_client = "client" /\ is_connected

\* the events of the call's trace that carry the command
Sent(call, cmd) == {i \in 1..Len(call.trace) : call.trace[i].cmd = cmd}

(* C32: no cache operation retries within one call.  A call of get, set,   *)
(* delete or delete_pattern creates at most one handle and pings at most   *)
(* once; a command that raised is the last thing the call sends, so it is  *)
(* never sent again; and delete_pattern scans at most once and, after the  *)
(* scan, sends at most one delete, which names exactly the keys that       *)
(* matched the pattern.                                                    *)
C32_Step ==
    last'.op \in BaseOps =>
        /\ Cardinality(Sent(last', "from_url")) <= 1
        /\ Cardinality(Sent(last', "ping")) <= 1
        /\ \A i \in RoundTrips(last') : ~last'.trace[i].ok => i = Len(last'.trace)
        /\ last'.op = "delete_pattern" =>
              /\ Cardinality(Sent(last', "scan")) <= 1
              /\ Cardinality(Sent(last', "delete")) <= 1
              /\ \A i \in Sent(last', "delete") :
                    /\ \E j \in Sent(last', "scan") : j < i /\ last'.trace[j].ok
                    /\ last'.trace[i].keys = {k \in DOMAIN redis : GlobMatch(last'.key, k)}

C33_Step ==
    /\ last'.op = "invalidate_all_lists" =>
          /\ DOMAIN redis' \subseteq DOMAIN redis
          /\ \A k \in DOMAIN redis :
                ~GlobMatch("todos:list:*", k) => (k \in DOMAIN redis' /\ redis'[k] = redis[k])
    /\ last'.op = "invalidate_all" =>
          /\ DOMAIN redis' \subseteq DOMAIN redis
          /\ \A k \in DOMAIN redis :
                (~GlobMatch("todo:*", k) /\ ~GlobMatch("todos:list:*", k)) =>
                    (k \in DOMAIN redis' /\ redis'[k] = redis[k])

C33_InvalidationFrame == [][C33_Step]_vars

\* invalidate_all_lists removed a list and left the statistics and an entity
C33_Witness ==
    /\ last.op = "invalidate_all_lists" /\ last.res.n >= 1
    /\ "todos:stats" \in DOMAIN redis
    /\ GenerateTodoKey(1) \in DOMAIN redis

(* C35: delete(key) returns True exactly when the key was there and the    *)
(* backend answered the delete, the key then being gone, and False when    *)
(* the key was absent or the backend failed.  invalidate_todo(id) returns  *)
(* that same result for the key of the todo alone, whatever number of list *)
(* keys it removed, and it runs the list invalidation also when the key of *)
(* the todo was absent.                                                    *)
C35_Step ==
    last'.op \in {"delete", "invalidate_todo"} =>
        LET own == {i \in Sent(last', "delete") : last'.trace[i].keys = {last'.key}} IN
        /\ last'.res \in {PyBool(TRUE), PyBool(FALSE)}
        /\ last'.res = PyBool(TRUE) <=>
              (last'.key \in DOMAIN redis /\ \E i \in own : last'.trace[i].ok)
        /\ last'.res = PyBool(TRUE) => last'.key \notin DOMAIN redis'
        /\ (last'.op = "invalidate_todo" /\ NoFailure(last')) =>
              /\ \E i \in Sent(last', "scan") : last'.trace[i].keys = {"todos:list:*"}
              /\ \A k \in DOMAIN redis' : ~IsListKey(k)

C35_DeleteResult == [][C35_Step]_vars

\* invalidate_todo returned True for the key of the todo and removed lists too
C35_Witness ==
    /\ last.op = "invalidate_todo" /\ NoFailure(last)
    /\ last.res = PyBool(TRUE)
    /\ \E i \in Sent(last, "delete") : \E k \in last.trace[i].keys : IsListKey(k)

(* C37: whenever health_check returns an error that is not None, the      *)
(* status it returns is 'unhealthy' and connected is False; a result with  *)
(* status 'healthy' has error None, also when a call made after the        *)
(* answered ping raises.                                                   *)
C37_ErrorMeansUnhealthy ==
    (last.op = "health_check" /\ DictGet(last.res, "error") # PyNone) =>
        /\ DictGet(last.res, "status") = PyStr("unhealthy")
        /\ DictGet(last.res, "connected") = PyBool(FALSE)

-----------------------------------------------------------------------------
Init ==
    /\ store = <<>>
    /\ redis = <<>>
    /\ redis_client = "None"
    /\ is_connected = FALSE
    /\ last = NoCall
    /\ tasks = <<>>

NextCache ==
    \/ \E F \in FailurePatterns :
        \/ \E key \in PlainKeys : CallGet(key, F)
        \/ \E key \in PlainKeys, ttl \in Ttls : CallSet(key, TodoA, ttl, F)
        \/ \E key \in PlainKeys : CallDelete(key, F)
        \/ \E pattern \in {"todo:*", "todos:*"} : CallDeletePattern(pattern, F)
        \/ \E id \in CacheIds : CallGetTodo(id, F)
        \/ \E id \in CacheIds, value \in CachedValues : CallCacheTodo(id, value, PyNone, F)
        \/ \E lp \in ListParams : CallGetTodosList(lp.f, lp.p, F)
        \/ \E lp \in ListParams : CallCacheTodosList(lp.f, lp.p, ListA, PyNone, F)
        \/ \E id \in CacheIds : CallInvalidateTodo(id, F)
        \/ CallInvalidateAllLists(F)
        \/ CallInvalidateAll(F)
    \/ \E key \in DOMAIN redis : Expire(key)
    \/ \E key \in {GenerateTodoKey(1)}, text \in CorruptTexts : ManualWrite(key, text)

SpecCache == Init /\ [][NextCache]_vars

-----------------------------------------------------------------------------
(* SpecTtl: writes with a time to live, reads, and time passing, against a *)
(* backend that answers                                                    *)

MaxTtl == 3

TtlArgs == {PyNone} \cup {PyInt(t) : t \in 1..MaxTtl}

NextTtl ==
    \/ \E key \in PlainKeys : CallGet(key, {})
    \/ \E key \in PlainKeys, ttl \in TtlArgs : CallSet(key, TodoA, ttl, {})
    \/ \E id \in CacheIds : CallGetTodo(id, {})
    \/ \E id \in CacheIds, ttl \in TtlArgs \ {PyNone} : CallCacheTodo(id, TodoA, ttl, {})
    \/ Tick

SpecTtl == Init /\ [][NextTtl]_vars

-----------------------------------------------------------------------------
(* SpecValues: calls whose arguments json.dumps may refuse *)

\* a filter value that holds itself
BadListParams ==
    {[f |-> PyDict(<< <<"completed", PyBool(TRUE)>>, <<"search", PyCyclic>> >>), p |-> PageA]}

StoredValues == {TodoA, PyCyclic}

NextValues ==
    \E F \in FailurePatterns :
        \/ \E key \in PlainKeys : CallGet(key, F)
        \/ \E key \in PlainKeys, value \in StoredValues : CallSet(key, value, PyInt(5), F)
        \/ \E id \in CacheIds, value \in StoredValues : CallCacheTodo(id, value, PyNone, F)
        \/ \E lp \in ListParams \cup BadListParams : CallGetTodosList(lp.f, lp.p, F)
        \/ \E lp \in ListParams \cup BadListParams, value \in {ListA, PyCyclic} :
              CallCacheTodosList(lp.f, lp.p, value, PyNone, F)

SpecValues == Init /\ [][NextValues]_vars

-----------------------------------------------------------------------------
(* SpecHealth: health_check and get_cache_stats, among reads and writes    *)
(* that make and lose the connection                                       *)

MaxHealthCalls == 4

HealthFailurePatterns == SUBSET (1..MaxHealthCalls)

NextHealth ==
    \/ \E F \in HealthFailurePatterns :
        \/ CallHealthCheck(F)
        \/ CallGetCacheStats(F)
        \/ \E id \in CacheIds : CallGetTodo(id, F)
        \/ \E id \in CacheIds : CallCacheTodo(id, TodoA, PyNone, F)
        \/ \E lp \in ListParams : CallCacheTodosList(lp.f, lp.p, ListA, PyNone, F)
        \/ \E key \in PlainKeys : CallDelete(key, F)
    \/ \E key \in DOMAIN redis : Expire(key)

SpecHealth == Init /\ [][NextHealth]_vars

-----------------------------------------------------------------------------
(* SpecKey: _generate_list_key applied to drawn (filters, pagination) *)

FilterKeys == {"completed", "priority", "due_date_from"}

FilterValues(k) ==
    CASE k = "completed" -> {PyNone, PyBool(FALSE), PyBool(TRUE)}
      [] k = "priority" -> {PyNone, PyStr("HIGH"), PyStr("LOW")}
      [] k = "due_date_from" -> {PyNone, PyStr("2024-01-01"), PyDate("2024-01-01")}

\* the item lists of the dicts with at most n of the keys, in every insertion order
RECURSIVE ItemLists(_, _)
ItemLists(keys, n) ==
    IF n = 0 THEN {<<>>}
    ELSE {<<>>} \cup
         UNION {UNION {{<< <<k, v>> >> \o rest : rest \in ItemLists(keys \ {k}, n - 1)}
                       : v \in FilterValues(k)} : k \in keys}

FilterDicts == {PyDict(ps) : ps \in ItemLists(FilterKeys, MaxFilterKeys)}

PaginationDicts ==
    {PyDict(<< <<"page", PyInt(1)>>, <<"page_size", PyInt(10)>> >>),
     PyDict(<< <<"page_size", PyInt(10)>>, <<"page", PyInt(1)>> >>),
     PyDict(<< <<"sort_by", PyNone>>, <<"page", PyInt(2)>>, <<"page_size", PyInt(10)>> >>)}

\* the ids the entity key is derived for: todo_id is any int
MaxKeyId == 12

KeyIds == (0 - MaxKeyId)..MaxKeyId

InitKey ==
    /\ store = <<>>
    /\ redis = <<>>
    /\ redis_client = "None"
    /\ is_connected = FALSE
    /\ tasks = <<>>
    /\ \/ \E f \in FilterDicts, p \in PaginationDicts :
             last = [NoCall EXCEPT !.op = "input", !.f = f, !.p = p]
       \/ \E todo_id \in KeyIds :
             last = [NoCall EXCEPT !.op = "input_id", !.id = todo_id]

CallGenerateListKey ==
    /\ last.op = "input"
    /\ last' = [last EXCEPT !.op = "_generate_list_key",
                            !.key = GenerateListKey(last.f, last.p)]
    /\ UNCHANGED <<store, redis, redis_client, is_connected, tasks>>

CallGenerateTodoKey ==
    /\ last.op = "input_id"
    /\ last' = [last EXCEPT !.op = "_generate_todo_key",
                            !.key = GenerateTodoKey(last.id)]
    /\ UNCHANGED <<store, redis, redis_client, is_connected, tasks>>

NextKey == CallGenerateListKey \/ CallGenerateTodoKey

SpecKey == InitKey /\ [][NextKey]_vars

\* the two dicts hold the same non-None values under the same keys
SameParams(d1, d2) ==
    \A k \in DictKeys(d1) \cup DictKeys(d2) : DictGet(d1, k) = DictGet(d2, k)

\* the two dicts agree but for key k, where both hold a value and the values differ
DifferAt(d1, d2, k) ==
    /\ DictKeys(d1) = DictKeys(d2)
    /\ k \in DictKeys(d1)
    /\ DictGet(d1, k).t # "none" /\ DictGet(d2, k).t # "none"
    /\ DictGet(d1, k) # DictGet(d2, k)
    /\ \A j \in DictKeys(d1) \ {k} : DictGet(d1, j) = DictGet(d2, j)

ListKeyPrefix == "todos:list:"

C8_AnyDistinctValues ==
    last.op = "_generate_list_key" =>
        \A f2 \in FilterDicts, k \in FilterKeys :
            DifferAt(last.f, f2, k) => GenerateListKey(f2, last.p) # last.key

(* C8, amended: the keys differ exactly when the two values have different *)
(* JSON texts under json.dumps(default=str); a value that is not a JSON    *)
(* type and the string str() makes of it get the same key.                 *)
C8_DistinctEncodings ==
    last.op = "_generate_list_key" =>
        \A f2 \in FilterDicts, k \in FilterKeys :
            DifferAt(last.f, f2, k) =>
                ((GenerateListKey(f2, last.p) # last.key)
                    <=> (JsonDumps(DictGet(last.f, k), TRUE) # JsonDumps(DictGet(f2, k), TRUE)))

\* a key was derived for filters holding completed = False beside another key, and
\* the domain holds the same filters with completed = True
C8_Witness ==
    /\ last.op = "_generate_list_key"
    /\ Len(last.f.kv) = MaxFilterKeys
    /\ DictGet(last.f, "completed") = PyBool(FALSE)
    /\ \E f2 \in FilterDicts :
          DifferAt(last.f, f2, "completed") /\ GenerateListKey(f2, last.p) # last.key

StatsKey == "todos:stats"

(* C26: the entity key of an id is "todo:" followed by the id in decimal,  *)
(* and two ids never get the same key.  The three key families are         *)
(* disjoint under the patterns the invalidations use: an entity key does   *)
(* not match "todos:list:*", a list key does not match "todo:*", and       *)
(* "todos:stats" matches neither pattern.                                  *)
C26_KeyFamilies ==
    /\ last.op = "_generate_todo_key" =>
          /\ last.key = "todo:" \o ToString(last.id)
          /\ \A j \in KeyIds : GenerateTodoKey(j) = last.key => j = last.id
          /\ GlobMatch("todo:*", last.key)
          /\ ~GlobMatch("todos:list:*", last.key)
          /\ last.key # StatsKey
    /\ last.op = "_generate_list_key" =>
          /\ GlobMatch("todos:list:*", last.key)
          /\ ~GlobMatch("todo:*", last.key)
          /\ last.key # StatsKey
    /\ ~GlobMatch("todo:*", StatsKey)
    /\ ~GlobMatch("todos:list:*", StatsKey)

\* the key of an id whose decimal form extends that of another id of the domain
C26_Witness ==
    /\ last.op = "_generate_todo_key"
    /\ last.id >= 10
    /\ GlobMatch("todo:1*", last.key)

-----------------------------------------------------------------------------
(* Spec: the request handlers of routers/todos.py over the store and the   *)
(* cache.  A todo is kept as its id, title and completed flag.             *)

TodoIds == 1..MaxId

\* the row the table gives a new todo: one past the highest id in use
NextId == IF DOMAIN store = {} THEN 1
          ELSE (CHOOSE i \in DOMAIN store : \A j \in DOMAIN store : j <= i) + 1

\* the todo_dict the handlers build from a row
TodoDict(id, row) ==
    PyDict(<< <<"id", PyInt(id)>>, <<"title", PyStr(row.title)>>,
              <<"completed", PyBool(row.completed)>> >>)

\* ids in descending order: the newest row first
RECURSIVE DescIds(_)
DescIds(S) ==
    IF S = {} THEN <<>>
    ELSE LET m == CHOOSE i \in S : \A j \in S : j <= i IN <<m>> \o DescIds(S \ {m})

\* TodoService.get_todos and the TodoListResponse the handler builds from it
StoreList(st, completed, page, page_size) ==
    LET limit == IF page_size < 1 THEN 1 ELSE IF page_size > 100 THEN 100 ELSE page_size
        offset == IF (page - 1) * page_size < 0 THEN 0 ELSE (page - 1) * page_size
        ids == DescIds({i \in DOMAIN st :
                          completed.t # "none" => st[i].completed = completed.b})
        total == Len(ids)
        upto == IF offset + limit < total THEN offset + limit ELSE total
        rows == SubSeq(ids, offset + 1, upto)
    IN  PyDict(<< <<"items", PyList([i \in 1..Len(rows) |-> TodoDict(rows[i], st[rows[i]])])>>,
                  <<"pagination",
                    PyDict(<< <<"page", PyInt((offset \div limit) + 1)>>,
                              <<"page_size", PyInt(limit)>>,
                              <<"total", PyInt(total)>>,
                              <<"pages", PyInt((total + limit - 1) \div limit)>>,
                              <<"has_next", PyBool(offset + limit < total)>>,
                              <<"has_prev", PyBool(offset > 0)>> >>)>> >>)

\* TodoService.get_statistics and the TodoStatsResponse built from it
StoreStats(st) ==
    LET total == Cardinality(DOMAIN st)
        completed == Cardinality({i \in DOMAIN st : st[i].completed})
    IN  PyDict(<< <<"total", PyInt(total)>>, <<"completed", PyInt(completed)>>,
                  <<"pending", PyInt(total - completed)>> >>)

\* the filter_params and pagination_params get_todos hands to the cache
FilterParams(completed) ==
    PyDict(<< <<"completed", completed>>, <<"priority", PyNone>>, <<"search", PyNone>>,
              <<"due_date_from", PyNone>>, <<"due_date_to", PyNone>> >>)

PaginationParams(page, page_size) ==
    PyDict(<< <<"page", PyInt(page)>>, <<"page_size", PyInt(page_size)>>,
              <<"sort_by", PyStr("created_at")>>, <<"sort_order", PyStr("desc")>> >>)

\* the service's and the backend's state after the request, and the record of
\* the request and its response
Respond(c, call, status, response) ==
    \E r \in {c} :
    /\ r.F \subseteq 1..r.n
    /\ redis' = r.redis
    /\ redis_client' = r.client
    /\ is_connected' = r.conn
    /\ last' = [call EXCEPT !.res = response, !.status = status]
    /\ UNCHANGED tasks

\* _clear_todo_caches without its delete of the todo's key
ClearTodoCachesKeepTodo(c, todo_id) ==
    LET b == DeletePattern(c, "todos:list:*")
        d == IF b.exc THEN b ELSE Delete(b, "todos:stats")
    IN  [d EXCEPT !.exc = FALSE]

\* _clear_todo_caches without its delete_pattern of the list keys
ClearTodoCachesKeepLists(c, todo_id) ==
    LET a == Delete(c, GenerateTodoKey(todo_id))
        d == IF a.exc THEN a ELSE Delete(a, "todos:stats")
    IN  [d EXCEPT !.exc = FALSE]

\* _clear_todo_caches without its delete of 'todos:stats'
ClearTodoCachesKeepStats(c, todo_id) ==
    LET a == Delete(c, GenerateTodoKey(todo_id))
        b == IF a.exc THEN a ELSE DeletePattern(a, "todos:list:*")
    IN  [b EXCEPT !.exc = FALSE]

\* _clear_todo_caches
ClearTodoCaches(c, todo_id) ==
    LET a == Delete(c, GenerateTodoKey(todo_id))
        b == IF a.exc THEN a ELSE DeletePattern(a, "todos:list:*")
        d == IF b.exc THEN b ELSE Delete(b, "todos:stats")
    IN  [d EXCEPT !.exc = FALSE]

\* GET /todos/
GetTodosHandler(completed, page, page_size, F) ==
    LET call == [NoCall EXCEPT !.op = "GET /", !.f = FilterParams(completed),
                               !.p = PaginationParams(page, page_size)]
        g == GetTodosList(Begin(F), call.f, call.p)
    IN  /\ IF Truthy(g.res) THEN Respond(g, call, 200, g.res)
           ELSE LET response_data == StoreList(store, completed, page, page_size) IN
                Respond(CacheTodosList(g, call.f, call.p, response_data, PyNone),
                        call, 200, response_data)
        /\ UNCHANGED store

\* create_todo, were it to call cache.invalidate_all() after it cached the todo
CreateTodoHandlerInvalidateAll(title, commit, F) ==
    LET id == NextId
        row == [title |-> title, completed |-> FALSE]
        call == [NoCall EXCEPT !.op = "POST /", !.id = id]
        a == CacheTodo(Begin(F), id, TodoDict(id, row), PyNone)
        b == InvalidateAll(a)
        d == Delete(b, "todos:stats")
    IN  /\ id \in TodoIds
        /\ IF commit
           THEN /\ store' = With(store, id, row)
                /\ Respond(d, call, 201, TodoDict(id, row))
           ELSE /\ Respond(Begin(F), call, 400, PyNone)
                /\ UNCHANGED store

\* POST /todos/; commit: db.commit() in TodoService.create_todo goes through
CreateTodoHandler(title, commit, F) ==
    LET id == NextId
        row == [title |-> title, completed |-> FALSE]
        call == [NoCall EXCEPT !.op = "POST /", !.id = id]
        a == CacheTodo(Begin(F), id, TodoDict(id, row), PyNone)
        b == InvalidateAllLists(a)
        d == Delete(b, "todos:stats")
    IN  /\ id \in TodoIds
        /\ IF commit
           THEN /\ store' = With(store, id, row)
                /\ Respond(d, call, 201, TodoDict(id, row))
           ELSE /\ Respond(Begin(F), call, 400, PyNone)
                /\ UNCHANGED store

\* get_todo_statistics, were it to call cache.set without a ttl
GetTodoStatisticsHandlerDefaultTtl(F) ==
    LET call == [NoCall EXCEPT !.op = "GET /stats"]
        g == Get(Begin(F), "todos:stats")
    IN  /\ IF Truthy(g.res) THEN Respond(g, call, 200, g.res)
           ELSE LET stats_response == StoreStats(store) IN
                Respond(Set(g, "todos:stats", stats_response, PyNone),
                        call, 200, stats_response)
        /\ UNCHANGED store

\* GET /todos/stats
GetTodoStatisticsHandler(F) ==
    LET call == [NoCall EXCEPT !.op = "GET /stats"]
        g == Get(Begin(F), "todos:stats")
    IN  /\ IF Truthy(g.res) THEN Respond(g, call, 200, g.res)
           ELSE LET stats_response == StoreStats(store) IN
                Respond(Set(g, "todos:stats", stats_response, PyInt(stats_ttl)),
                        call, 200, stats_response)
        /\ UNCHANGED store

\* get_todo, were it to ask the store before it looks at what the cache returned
GetTodoHandlerStoreFirst(todo_id, F) ==
    LET call == [NoCall EXCEPT !.op = "GET /{todo_id}", !.id = todo_id]
        g == GetTodo(Begin(F), todo_id)
    IN  /\ IF todo_id \notin DOMAIN store THEN Respond(g, call, 404, PyNone)
           ELSE LET todo_dict == TodoDict(todo_id, store[todo_id]) IN
                IF Truthy(g.res) THEN Respond(g, call, 200, todo_dict)
                ELSE Respond(CacheTodo(g, todo_id, todo_dict, PyNone), call, 200, todo_dict)
        /\ UNCHANGED store

\* get_todo, were it to cache the absence of a todo the store does not hold
GetTodoHandlerNegativeCaching(todo_id, F) ==
    LET call == [NoCall EXCEPT !.op = "GET /{todo_id}", !.id = todo_id]
        g == GetTodo(Begin(F), todo_id)
    IN  /\ IF Truthy(g.res) THEN Respond(g, call, 200, g.res)
           ELSE IF todo_id \notin DOMAIN store
                THEN Respond(CacheTodo(g, todo_id, PyNone, PyNone), call, 404, PyNone)
           ELSE LET todo_dict == TodoDict(todo_id, store[todo_id]) IN
                Respond(CacheTodo(g, todo_id, todo_dict, PyNone), call, 200, todo_dict)
        /\ UNCHANGED store

\* GET /todos/{todo_id}
GetTodoHandler(todo_id, F) ==
    LET call == [NoCall EXCEPT !.op = "GET /{todo_id}", !.id = todo_id]
        g == GetTodo(Begin(F), todo_id)
    IN  /\ IF Truthy(g.res) THEN Respond(g, call, 200, g.res)
           ELSE IF todo_id \notin DOMAIN store THEN Respond(g, call, 404, PyNone)
           ELSE LET todo_dict == TodoDict(todo_id, store[todo_id]) IN
                Respond(CacheTodo(g, todo_id, todo_dict, PyNone), call, 200, todo_dict)
        /\ UNCHANGED store

\* update_todo, were it to clear the caches before it asks the store
UpdateTodoHandlerClearFirst(todo_id, completed, commit, F) ==
    LET call == [NoCall EXCEPT !.op = "PUT /{todo_id}", !.id = todo_id,
                               !.value = PyDict(<< <<"completed", PyBool(completed)>> >>)]
        cleared == ClearTodoCaches(Begin(F), todo_id)
    IN  IF todo_id \notin DOMAIN store
        THEN /\ Respond(cleared, call, 404, PyNone)
             /\ UNCHANGED store
        ELSE IF ~commit
        THEN /\ Respond(cleared, call, 400, PyNone)
             /\ UNCHANGED store
        ELSE LET row == [store[todo_id] EXCEPT !.completed = completed] IN
             /\ store' = With(store, todo_id, row)
             /\ Respond(cleared, call, 200, TodoDict(todo_id, row))

\* PUT /todos/{todo_id}, with a body that sets completed; commit: db.commit() in
\* TodoService.update_todo goes through
UpdateTodoHandler(todo_id, completed, commit, F) ==
    LET call == [NoCall EXCEPT !.op = "PUT /{todo_id}", !.id = todo_id,
                               !.value = PyDict(<< <<"completed", PyBool(completed)>> >>)]
    IN  IF todo_id \notin DOMAIN store
        THEN /\ Respond(Begin(F), call, 404, PyNone)
             /\ UNCHANGED store
        ELSE IF ~commit
        THEN /\ Respond(Begin(F), call, 400, PyNone)
             /\ UNCHANGED store
        ELSE LET row == [store[todo_id] EXCEPT !.completed = completed] IN
             /\ store' = With(store, todo_id, row)
             /\ Respond(ClearTodoCaches(Begin(F), todo_id), call, 200, TodoDict(todo_id, row))

\* DELETE /todos/{todo_id}; commit: db.commit() in TodoService.delete_todo goes
\* through
DeleteTodoHandler(todo_id, commit, F) ==
    LET call == [NoCall EXCEPT !.op = "DELETE /{todo_id}", !.id = todo_id] IN
    IF todo_id \notin DOMAIN store
    THEN /\ Respond(Begin(F), call, 404, PyNone)
         /\ UNCHANGED store
    ELSE IF ~commit
    THEN /\ Respond(Begin(F), call, 500, PyNone)
         /\ UNCHANGED store
    ELSE /\ store' = Without(store, {todo_id})
         /\ Respond(ClearTodoCaches(Begin(F), todo_id), call, 204, PyNone)

\* POST /todos/{todo_id}/complete: TodoService.mark_completed calls
\* todo.mark_completed(), a method the Todo model does not define; the
\* AttributeError reaches the handler's "except Exception"
MarkTodoCompleteHandler(todo_id, F) ==
    LET call == [NoCall EXCEPT !.op = "POST /{todo_id}/complete", !.id = todo_id] IN
    /\ Respond(Begin(F), call, IF todo_id \notin DOMAIN store THEN 404 ELSE 500, PyNone)
    /\ UNCHANGED store

\* POST /todos/{todo_id}/incomplete: as above, with todo.mark_incomplete()
MarkTodoIncompleteHandler(todo_id, F) ==
    LET call == [NoCall EXCEPT !.op = "POST /{todo_id}/incomplete", !.id = todo_id] IN
    /\ Respond(Begin(F), call, IF todo_id \notin DOMAIN store THEN 404 ELSE 500, PyNone)
    /\ UNCHANGED store

\* json.dumps(content) with no default: raises TypeError unless every value is
\* of a JSON type (a member of a str Enum is a str)
RECURSIVE JsonNative(_)
JsonNative(v) ==
    /\ v.t \notin {"date", "cyclic"}
    /\ \A i \in 1..Len(v.items) : JsonNative(v.items[i])
    /\ \A i \in 1..Len(v.kv) : JsonNative(v.kv[i][2])

\* main.general_exception_handler
GeneralExceptionHandler ==
    [status |-> 500,
     content |-> PyDict(<< <<"detail", PyStr("Internal server error")>>,
                           <<"status_code", PyInt(500)>> >>)]

\* main.http_exception_handler: JSONResponse(...) renders its content when it is
\* made; a TypeError raised there is an unhandled exception of the request
HttpExceptionHandler(status_code, detail) ==
    IF JsonNative(detail)
    THEN [status |-> status_code,
          content |-> PyDict(<< <<"detail", detail>>, <<"status_code", PyInt(status_code)>> >>)]
    ELSE GeneralExceptionHandler

\* GET /todos/health; db_healthy is what get_db_health() returns
HealthCheckHandler(db_healthy, F) ==
    LET call == [NoCall EXCEPT !.op = "GET /health", !.value = PyBool(db_healthy)]
        h == HealthCheck(Begin(F))
        cache_status == IF h.exc THEN PyStr("unhealthy") ELSE DictGet(h.res, "status")
        cache_connected == IF h.exc THEN PyBool(FALSE) ELSE DictGet(h.res, "connected")
        overall_status == IF ~db_healthy THEN "unhealthy"
                          ELSE IF cache_status # PyStr("healthy") THEN "degraded"
                          ELSE "healthy"
        checks == PyDict(<< <<"database",
                              PyDict(<< <<"status", PyStr(IF db_healthy THEN "healthy"
                                                          ELSE "unhealthy")>>,
                                        <<"connected", PyBool(db_healthy)>> >>)>>,
                            <<"cache",
                              PyDict(<< <<"status", cache_status>>,
                                        <<"connected", cache_connected>> >>)>> >>)
        \* HealthCheckResponse(...).dict(): timestamp is a datetime
        health_response == PyDict(<< <<"status", PyStr(overall_status)>>,
                                     <<"timestamp", PyDate("now")>>,
                                     <<"version", PyStr("1.0.0")>>,
                                     <<"checks", checks>> >>)
        raised == HttpExceptionHandler(503, health_response)
    IN  /\ IF overall_status = "unhealthy"
           THEN Respond([h EXCEPT !.exc = FALSE], call, raised.status, raised.content)
           ELSE Respond([h EXCEPT !.exc = FALSE], call, 200, health_response)
        /\ UNCHANGED store

RequestFailurePatterns == SUBSET (1..MaxRequestCalls)

Titles == {"a"}
Pages == {1}
PageSizes == {20}
CompletedFilters == {PyNone, PyBool(TRUE)}

Next ==
    \/ \E F \in RequestFailurePatterns :
        \/ \E completed \in CompletedFilters, page \in Pages, page_size \in PageSizes :
              GetTodosHandler(completed, page, page_size, F)
        \/ \E title \in Titles, commit \in BOOLEAN : CreateTodoHandler(title, commit, F)
        \/ GetTodoStatisticsHandler(F)
        \/ \E todo_id \in TodoIds : GetTodoHandler(todo_id, F)
        \/ \E todo_id \in TodoIds, completed \in BOOLEAN, commit \in BOOLEAN :
              UpdateTodoHandler(todo_id, completed, commit, F)
        \/ \E todo_id \in TodoIds, commit \in BOOLEAN : DeleteTodoHandler(todo_id, commit, F)
        \/ \E todo_id \in TodoIds : MarkTodoCompleteHandler(todo_id, F)
        \/ \E todo_id \in TodoIds : MarkTodoIncompleteHandler(todo_id, F)
        \/ \E db_healthy \in BOOLEAN : HealthCheckHandler(db_healthy, F)
    \/ \E key \in DOMAIN redis : Expire(key)

\* what the store alone answers to the GET request that last records
StoreAnswer ==
    CASE last.op = "GET /{todo_id}" ->
            IF last.id \in DOMAIN store
            THEN [status |-> 200, body |-> TodoDict(last.id, store[last.id])]
            ELSE [status |-> 404, body |-> PyNone]
      [] last.op = "GET /" ->
            [status |-> 200,
             body |-> StoreList(store, DictGet(last.f, "completed"),
                                DictGet(last.p, "page").n, DictGet(last.p, "page_size").n)]
      [] last.op = "GET /stats" ->
            [status |-> 200, body |-> StoreStats(store)]

GetRequests == {"GET /{todo_id}", "GET /", "GET /stats"}

(* C1: whatever the requests before it and whichever backend calls failed, *)
(* the response of GET /todos/{id}, GET /todos and GET /todos/stats is     *)
(* what the store answers at that moment.                                  *)
C1_ReadsMatchStore ==
    last.op \in GetRequests =>
        /\ last.status = StoreAnswer.status
        /\ PyEq(last.res, StoreAnswer.body)

WriteRequests ==
    {"POST /", "PUT /{todo_id}", "DELETE /{todo_id}",
     "POST /{todo_id}/complete", "POST /{todo_id}/incomplete"}

(* C15: in every write handler (create, update, delete, complete,          *)
(* incomplete) the cache is touched only once the store operation has      *)
(* committed: a request whose store operation fails (404, 400 or 500)      *)
(* writes nothing to the cache and deletes nothing from it, and leaves the *)
(* service's connection as it was.                                         *)
C15_Step ==
    (last'.op \in WriteRequests /\ last'.status \notin {200, 201, 204}) =>
        UNCHANGED <<store, redis, redis_client, is_connected>>

C15_CacheAfterCommit == [][C15_Step]_vars

\* an update whose commit failed, with a cached list, cached statistics and the
\* cached todo left where they were
C15_Witness ==
    /\ last.op = "PUT /{todo_id}" /\ last.status = 400
    /\ GenerateTodoKey(last.id) \in DOMAIN redis
    /\ "todos:stats" \in DOMAIN redis
    /\ \E k \in DOMAIN redis : IsListKey(k)
(* C20: a cache outage alone never makes GET /todos/health fail: the       *)
(* overall status is 'unhealthy', with HTTP 503, exactly when the database *)
(* check fails; when the database is healthy and the cache check reports a *)
(* status other than 'healthy', or raises, the answer is 200 with overall  *)
(* status 'degraded'.                                                      *)
C20_HealthStatus ==
    last.op = "GET /health" =>
        LET db_healthy == last.value.b
            overall == DictGet(last.res, "status")
            cache == DictGet(DictGet(DictGet(last.res, "checks"), "cache"), "status")
        IN  /\ (last.status = 503 /\ overall = PyStr("unhealthy")) <=> ~db_healthy
            /\ db_healthy =>
                  /\ last.status = 200
                  /\ overall = (IF cache = PyStr("healthy") THEN PyStr("healthy")
                                ELSE PyStr("degraded"))

(* C36: a GET /todos/{id} that ends in 404, the cache having no usable     *)
(* entry for the id and the store not holding it, leaves the cache as it   *)
(* was: nothing is written for the missing id and no key is removed.       *)
C36_Step ==
    (last'.op = "GET /{todo_id}" /\ last'.status = 404) =>
        /\ last'.id \notin DOMAIN store
        /\ redis' = redis
        /\ UNCHANGED store

C36_NotFoundLeavesCache == [][C36_Step]_vars

\* a GET answered 404 while the cache holds other entries and none for the id
C36_Witness ==
    /\ last.op = "GET /{todo_id}" /\ last.status = 404
    /\ DOMAIN redis # {}
    /\ GenerateTodoKey(last.id) \notin DOMAIN redis

Spec == Init /\ [][Next]_vars

-----------------------------------------------------------------------------
(* SpecNoFailure: the requests, one after the other, against a backend     *)
(* that answers every call                                                 *)

ListPages == {1, 2}
ListPageSizes == {1}

NextNoFailure ==
    \/ \E completed \in CompletedFilters, page \in ListPages, page_size \in ListPageSizes :
          GetTodosHandler(completed, page, page_size, {})
    \/ \E title \in Titles, commit \in BOOLEAN : CreateTodoHandler(title, commit, {})
    \/ GetTodoStatisticsHandler({})
    \/ \E todo_id \in TodoIds : GetTodoHandler(todo_id, {})
    \/ \E todo_id \in TodoIds, completed \in BOOLEAN, commit \in BOOLEAN :
          UpdateTodoHandler(todo_id, completed, commit, {})
    \/ \E todo_id \in TodoIds, commit \in BOOLEAN : DeleteTodoHandler(todo_id, commit, {})
    \/ \E todo_id \in TodoIds : MarkTodoCompleteHandler(todo_id, {})
    \/ \E todo_id \in TodoIds : MarkTodoIncompleteHandler(todo_id, {})
    \/ \E key \in DOMAIN redis : Expire(key)

SpecNoFailure == Init /\ [][NextNoFailure]_vars

(* C17: with requests one after the other and a backend that does not     *)
(* fail, after PUT /todos/{id} has succeeded the next GET /todos/{id}      *)
(* returns the updated record, and after DELETE /todos/{id} has returned   *)
(* 204 the next GET /todos/{id} returns 404, whatever was cached before:   *)
(* a successful PUT answers with the record the store now holds, a         *)
(* successful DELETE leaves the store without the todo, and every GET      *)
(* /todos/{id} answers what the store holds.                               *)
C17_Step ==
    /\ (last'.op = "PUT /{todo_id}" /\ last'.status = 200) =>
          /\ last'.id \in DOMAIN store'
          /\ store'[last'.id].completed = DictGet(last'.value, "completed").b
          /\ PyEq(last'.res, TodoDict(last'.id, store'[last'.id]))
    /\ (last'.op = "DELETE /{todo_id}" /\ last'.status = 204) =>
          last'.id \notin DOMAIN store'
    /\ last'.op = "GET /{todo_id}" =>
          IF last'.id \in DOMAIN store
          THEN last'.status = 200 /\ PyEq(last'.res, TodoDict(last'.id, store[last'.id]))
          ELSE last'.status = 404 /\ last'.res = PyNone

C17_ReadYourWrites == [][C17_Step]_vars

\* a GET that answers with a record an update has completed (todos are created
\* not completed)
C17_Witness ==
    /\ last.op = "GET /{todo_id}" /\ last.status = 200
    /\ DictGet(last.res, "completed") = PyBool(TRUE)

(* C18: with requests one after the other and a backend that does not     *)
(* fail, every GET /todos response equals what the store's filtered and    *)
(* paginated query gives at that moment, for every filter and pagination.  *)
C18_ListsMatchStore ==
    last.op = "GET /" =>
        /\ last.status = 200
        /\ PyEq(last.res, StoreList(store, DictGet(last.f, "completed"),
                                    DictGet(last.p, "page").n, DictGet(last.p, "page_size").n))

\* the list of completed todos, with a todo in it: it was completed by an update
C18_Witness ==
    /\ last.op = "GET /"
    /\ DictGet(last.f, "completed") = PyBool(TRUE)
    /\ Len(DictGet(last.res, "items").items) > 0

(* C19: with requests one after the other and a backend that does not     *)
(* fail, GET /todos/stats returns total, completed and pending = total -   *)
(* completed as the store has them, because every successful mutation     *)
(* removes the key 'todos:stats'.                                          *)
C19_Step ==
    /\ last'.op = "GET /stats" =>
          /\ last'.status = 200
          /\ PyEq(last'.res, StoreStats(store))
          /\ DictGet(last'.res, "pending").n =
                DictGet(last'.res, "total").n - DictGet(last'.res, "completed").n
    /\ (last'.op \in WriteRequests /\ last'.status \in {200, 201, 204}) =>
          "todos:stats" \notin DOMAIN redis'

C19_StatsMatchStore == [][C19_Step]_vars

\* statistics that count a completed todo
C19_Witness ==
    /\ last.op = "GET /stats"
    /\ DictGet(last.res, "completed") = PyInt(1)

(* C24, as stated: with the default configuration, the entry under the   *)
(* statistics key 'todos:stats' is stored with a TTL strictly shorter than *)
(* the default TTL applied to entity and list entries.                     *)
C24_StatsTtlShorter ==
    "todos:stats" \in DOMAIN redis => redis["todos:stats"].ttl < default_ttl

(* C24, amended: with the default configuration the entry under            *)
(* 'todos:stats' is stored with a TTL of 60 seconds, distinct from and     *)
(* longer than the default TTL of 30 seconds that every entity and list    *)
(* entry is stored with.                                                   *)
C24_StatsTtlLonger ==
    \A k \in DOMAIN redis :
        IF k = "todos:stats"
        THEN redis[k].ttl = stats_ttl /\ redis[k].ttl > default_ttl
        ELSE redis[k].ttl = default_ttl

\* statistics, a todo and a list are cached together
C24_Witness ==
    /\ "todos:stats" \in DOMAIN redis
    /\ GenerateTodoKey(1) \in DOMAIN redis
    /\ \E k \in DOMAIN redis : IsListKey(k)

(* C34: after a successful POST /todos, the backend not failing, the key   *)
(* of the new todo holds the created record with the default TTL (it is    *)
(* written first and the list invalidation leaves it), and no list key and *)
(* no statistics key is left.                                              *)
C34_Step ==
    (last'.op = "POST /" /\ last'.status = 201) =>
        LET key == GenerateTodoKey(last'.id) IN
        /\ last'.id \in DOMAIN store'
        /\ key \in DOMAIN redis'
        /\ PyEq(JsonLoads(redis'[key].val).val, TodoDict(last'.id, store'[last'.id]))
        /\ PyEq(JsonLoads(redis'[key].val).val, last'.res)
        /\ redis'[key].ttl = default_ttl
        /\ \A k \in DOMAIN redis' : ~IsListKey(k) /\ k # StatsKey

C34_CreateCachesEntity == [][C34_Step]_vars

\* a todo has been created and its key is the only one in the cache
C34_Witness ==
    /\ last.op = "POST /" /\ last.status = 201
    /\ DOMAIN redis = {GenerateTodoKey(last.id)}
    /\ redis_client = "client"

-----------------------------------------------------------------------------
(* SpecReadThrough: writes see a backend that may fail, reads one that     *)
(* answers, so a read can find an entry a failed invalidation has left     *)

NextReadThrough ==
    \/ \E F \in RequestFailurePatterns :
        \/ \E title \in Titles : CreateTodoHandler(title, TRUE, F)
        \/ \E todo_id \in TodoIds, completed \in BOOLEAN :
              UpdateTodoHandler(todo_id, completed, TRUE, F)
        \/ \E todo_id \in TodoIds : DeleteTodoHandler(todo_id, TRUE, F)
    \/ \E completed \in CompletedFilters, page \in Pages, page_size \in PageSizes :
          GetTodosHandler(completed, page, page_size, {})
    \/ GetTodoStatisticsHandler({})
    \/ \E todo_id \in TodoIds : GetTodoHandler(todo_id, {})
    \/ \E key \in DOMAIN redis : Expire(key)

SpecReadThrough == Init /\ [][NextReadThrough]_vars

(* C16: GET /todos/{id} is a read-through.  On a cache hit the store is    *)
(* not asked and the cached value is returned, the cache left as it was;   *)
(* on a miss for an id the store holds, the store's record is returned     *)
(* and, the backend not failing, 'todo:<id>' holds that record with the    *)
(* default TTL when the request completes.                                 *)
C16_Step ==
    last'.op = "GET /{todo_id}" =>
        LET key == GenerateTodoKey(last'.id) IN
        /\ UNCHANGED store
        /\ IF key \in DOMAIN redis
           THEN /\ last'.status = 200
                /\ PyEq(last'.res, JsonLoads(redis[key].val).val)
                /\ redis' = redis
           ELSE last'.id \in DOMAIN store =>
                LET todo_dict == TodoDict(last'.id, store[last'.id]) IN
                /\ last'.status = 200
                /\ PyEq(last'.res, todo_dict)
                /\ redis' = With(redis, key, [val |-> JsonDumps(todo_dict, FALSE),
                                               ttl |-> default_ttl, age |-> 0])

C16_ReadThrough == [][C16_Step]_vars

\* a hit on an entry a failed invalidation left behind: the store no longer has
\* the todo and the request answers 200 with the cached record
C16_Witness ==
    /\ last.op = "GET /{todo_id}" /\ last.status = 200
    /\ last.id \notin DOMAIN store
    /\ PyEq(last.res, JsonLoads(redis[GenerateTodoKey(last.id)].val).val)

-----------------------------------------------------------------------------
(* SpecPaging: the pagination arithmetic of services/todo_service.py,      *)
(* applied to drawn integers.                                              *)

\* the arguments drawn lie within MaxPageArg of 0 and of the limit's ceiling
MaxPageArg == 3
\* the totals and offsets given to PaginationResult are at most MaxTotal
MaxTotal == 7

\* the ceiling TodoFilters puts on limit
limit_max == 100

Max(a, b) == IF a >= b THEN a ELSE b

Min(a, b) == IF a <= b THEN a ELSE b

\* TodoFilters.__init__ putting the ceiling on limit and no floor
TodoFiltersNoFloor(limit, offset) ==
    [limit |-> Min(limit, limit_max), offset |-> Max(0, offset)]

\* TodoFilters.__init__: the limit and offset the object stores
TodoFilters(limit, offset) ==
    [limit |-> Max(1, Min(limit, limit_max)), offset |-> Max(0, offset)]

\* PaginationResult.__init__ counting the full pages only
PaginationResultFullPages(total, limit, offset) ==
    [total |-> total, limit |-> limit, offset |-> offset,
     has_next |-> offset + limit < total,
     has_prev |-> offset > 0,
     total_pages |-> total \div limit,
     current_page |-> (offset \div limit) + 1]

\* PaginationResult.__init__: the attributes computed from total, limit, offset
PaginationResult(total, limit, offset) ==
    [total |-> total, limit |-> limit, offset |-> offset,
     has_next |-> offset + limit < total,
     has_prev |-> offset > 0,
     total_pages |-> (total + limit - 1) \div limit,
     current_page |-> (offset \div limit) + 1]

\* get_todos, were it to take page * page_size for the offset
GetTodosPaginationOffByOne(page, page_size, total) ==
    LET filters == TodoFilters(page_size, page * page_size)
        result == PaginationResult(total, filters.limit, filters.offset)
    IN  [page |-> result.current_page, page_size |-> result.limit,
         total |-> result.total, pages |-> result.total_pages,
         has_next |-> result.has_next, has_prev |-> result.has_prev]

\* the PaginationMeta of get_todos: the offset of the page goes through
\* TodoFilters, and the PaginationResult of TodoService.get_todos is built from
\* the row count and from what the filters store
GetTodosPagination(page, page_size, total) ==
    LET offset == (page - 1) * page_size
        filters == TodoFilters(page_size, offset)
        result == PaginationResult(total, filters.limit, filters.offset)
    IN  [page |-> result.current_page, page_size |-> result.limit,
         total |-> result.total, pages |-> result.total_pages,
         has_next |-> result.has_next, has_prev |-> result.has_prev]

\* any int may be given to TodoFilters
LimitArgs == ((0 - MaxPageArg)..MaxPageArg)
                 \cup ((limit_max - MaxPageArg)..(limit_max + MaxPageArg))

OffsetArgs == (0 - MaxPageArg)..MaxPageArg

\* get_todos builds its PaginationResult from a count and from the limit and
\* offset a TodoFilters stores
InitPaging ==
    /\ store = <<>>
    /\ redis = <<>>
    /\ redis_client = "None"
    /\ is_connected = FALSE
    /\ tasks = <<>>
    /\ \/ \E limit \in LimitArgs, offset \in OffsetArgs :
             last = [NoCall EXCEPT !.op = "input_filters",
                                   !.value = [limit |-> limit, offset |-> offset]]
       \/ \E total \in 0..MaxTotal, limit \in 1..MaxPageArg, offset \in 0..MaxTotal :
             last = [NoCall EXCEPT !.op = "input_pagination",
                                   !.value = [total |-> total, limit |-> limit,
                                              offset |-> offset]]
       \/ \E page \in 1..(MaxPageArg + 1),
             page_size \in (1..MaxPageArg) \cup {limit_max},
             total \in 0..MaxTotal :
             last = [NoCall EXCEPT !.op = "input_list",
                                   !.value = [page |-> page, page_size |-> page_size,
                                              total |-> total]]

CallTodoFilters ==
    /\ last.op = "input_filters"
    /\ last' = [last EXCEPT !.op = "TodoFilters",
                            !.res = TodoFilters(last.value.limit, last.value.offset)]
    /\ UNCHANGED <<store, redis, redis_client, is_connected, tasks>>

CallPaginationResult ==
    /\ last.op = "input_pagination"
    /\ last' = [last EXCEPT !.op = "PaginationResult",
                            !.res = PaginationResult(last.value.total, last.value.limit,
                                                     last.value.offset)]
    /\ UNCHANGED <<store, redis, redis_client, is_connected, tasks>>

CallGetTodosPagination ==
    /\ last.op = "input_list"
    /\ last' = [last EXCEPT !.op = "pagination_meta",
                            !.res = GetTodosPagination(last.value.page, last.value.page_size,
                                                       last.value.total)]
    /\ UNCHANGED <<store, redis, redis_client, is_connected, tasks>>

NextPaging == CallTodoFilters \/ CallPaginationResult \/ CallGetTodosPagination

SpecPaging == InitPaging /\ [][NextPaging]_vars

(* C28: for every integer limit and offset, the limit TodoFilters stores   *)
(* is min(max(limit, 1), 100), that is limit itself when it lies in        *)
(* 1..100, 1 below and 100 above, and the offset it stores is              *)
(* max(offset, 0).                                                         *)
C28_FiltersClamp ==
    last.op = "TodoFilters" =>
        LET limit == last.value.limit
            offset == last.value.offset
        IN  /\ last.res.limit = Min(Max(limit, 1), 100)
            /\ last.res.limit = (IF limit < 1 THEN 1 ELSE IF limit > 100 THEN 100 ELSE limit)
            /\ last.res.offset = Max(offset, 0)
            /\ last.res.offset = (IF offset < 0 THEN 0 ELSE offset)

\* a limit above the ceiling given with a negative offset
C28_Witness ==
    /\ last.op = "TodoFilters"
    /\ last.value.limit > 100 /\ last.res.limit = 100
    /\ last.value.offset < 0 /\ last.res.offset = 0

(* C29: for total >= 0, limit >= 1 and offset >= 0, total_pages is the     *)
(* least number of pages of limit items that hold total items,             *)
(* current_page is one more than the number of whole pages before offset,  *)
(* has_next holds exactly when offset + limit < total and has_prev         *)
(* exactly when offset > 0.                                                *)
C29_PageArithmetic ==
    last.op = "PaginationResult" =>
        LET total == last.value.total
            limit == last.value.limit
            offset == last.value.offset
            r == last.res
        IN  /\ r.total_pages * limit >= total
            /\ (r.total_pages - 1) * limit < total
            /\ (r.current_page - 1) * limit <= offset
            /\ offset < r.current_page * limit
            /\ r.has_next <=> (offset + limit < total)
            /\ r.has_prev <=> (offset > 0)

\* the last page of a total that leaves it partly filled
C29_Witness ==
    /\ last.op = "PaginationResult"
    /\ last.res.total_pages * last.value.limit > last.value.total
    /\ last.res.current_page = last.res.total_pages
    /\ last.res.has_prev /\ ~last.res.has_next
    /\ last.value.limit > 1

(* C38: for a list request with page >= 1 and 1 <= page_size <= 100 and    *)
(* any total >= 0, the pagination returned reports the page and the page   *)
(* size that were asked, has_next holds exactly when the page is before    *)
(* the last one (page < pages) and has_prev exactly when page > 1.         *)
C38_PaginationConsistent ==
    last.op = "pagination_meta" =>
        /\ last.res.page = last.value.page
        /\ last.res.page_size = last.value.page_size
        /\ last.res.total = last.value.total
        /\ last.res.has_next <=> (last.res.page < last.res.pages)
        /\ last.res.has_prev <=> (last.value.page > 1)

\* a page asked beyond the last one: no next page, a previous one
C38_Witness ==
    /\ last.op = "pagination_meta"
    /\ last.value.page > last.res.pages /\ last.res.pages >= 1
    /\ ~last.res.has_next /\ last.res.has_prev

-----------------------------------------------------------------------------
(* C27: POST /todos/{id}/complete on an id the store holds sets completed  *)
(* to True, and POST /todos/{id}/incomplete sets it to False; the request  *)
(* commits the change, answers 200 with the updated record and, the        *)
(* backend not failing, leaves no entry under the todo's key, under any    *)
(* list key or under the statistics key.                                   *)
C27_Step ==
    (last'.op \in {"POST /{todo_id}/complete", "POST /{todo_id}/incomplete"}
        /\ last'.id \in DOMAIN store) =>
        /\ last'.status = 200
        /\ last'.id \in DOMAIN store'
        /\ store'[last'.id].completed = (last'.op = "POST /{todo_id}/complete")
        /\ PyEq(last'.res, TodoDict(last'.id, store'[last'.id]))
        /\ redis_client' # "None" =>
              \A k \in DOMAIN redis' :
                  /\ k # GenerateTodoKey(last'.id)
                  /\ ~IsListKey(k)
                  /\ k # StatsKey

C27_MarkCommitsAndClears == [][C27_Step]_vars

-----------------------------------------------------------------------------
(* SpecTasks: cache operations run as coroutines on one event loop.  A     *)
(* coroutine runs alone from one await to the next, so each action is the  *)
(* code between two awaits of _execute_with_fallback and of the            *)
(* _get_redis_client it calls; the backend's answer to the awaited command *)
(* is the input of the action that resumes the coroutine.                  *)

\* the coroutines that may be in flight at once
MaxTasks == 3

Tasks == 1..MaxTasks

\* a coroutine that is not running: pc is the await it is suspended at, client
\* the handle _get_redis_client returned to it
IdleTask == [pc |-> "idle", client |-> "None"]

\* _get_redis_client creating a handle whether or not one is held
TaskStartAlwaysCreate(t, ok) ==
    /\ tasks[t].pc = "idle"
    /\ IF ok
       THEN /\ redis_client' = "client"
            /\ tasks' = [tasks EXCEPT ![t].pc = "ping"]
            /\ UNCHANGED is_connected
       ELSE /\ redis_client' = "None"
            /\ is_connected' = FALSE
            /\ UNCHANGED tasks
    /\ last' = [NoCall EXCEPT !.op = "from_url", !.id = t, !.raised = ~ok]
    /\ UNCHANGED <<store, redis>>

\* a cache operation starts: _execute_with_fallback calls _get_redis_client.
\* With no handle held, from_url makes one and the coroutine is suspended at
\* the ping (from_url raising: the handler leaves no handle and the operation
\* returns its fallback); with a handle held, the handle is returned at once
\* and the coroutine is suspended at the command it sends
TaskStart(t, ok) ==
    /\ tasks[t].pc = "idle"
    /\ IF redis_client = "None"
       THEN /\ IF ok
               THEN /\ redis_client' = "client"
                    /\ tasks' = [tasks EXCEPT ![t].pc = "ping"]
                    /\ UNCHANGED is_connected
               ELSE /\ redis_client' = "None"
                    /\ is_connected' = FALSE
                    /\ UNCHANGED tasks
            /\ last' = [NoCall EXCEPT !.op = "from_url", !.id = t, !.raised = ~ok]
       ELSE /\ tasks' = [tasks EXCEPT ![t] = [pc |-> "operation",
                                              client |-> redis_client]]
            /\ last' = [NoCall EXCEPT !.op = "held", !.id = t]
            /\ UNCHANGED <<redis_client, is_connected>>
    /\ UNCHANGED <<store, redis>>

\* the ping of _get_redis_client is answered or raises.  Answered: the service
\* is connected and the handle the field holds NOW is returned, which is None
\* when another coroutine has reset it meanwhile; raised: the field is reset
\* and None returned.  On None the operation returns its fallback
TaskPingDone(t, ok) ==
    /\ tasks[t].pc = "ping"
    /\ IF ok
       THEN /\ is_connected' = TRUE
            /\ UNCHANGED redis_client
            /\ tasks' = [tasks EXCEPT ![t] =
                            IF redis_client = "None" THEN IdleTask
                            ELSE [pc |-> "operation", client |-> redis_client]]
       ELSE /\ redis_client' = "None"
            /\ is_connected' = FALSE
            /\ tasks' = [tasks EXCEPT ![t] = IdleTask]
    /\ last' = [NoCall EXCEPT !.op = "ping", !.id = t, !.raised = ~ok]
    /\ UNCHANGED <<store, redis>>

\* the command of the operation is answered or raises; raising resets the
\* connection state of the service, whichever handle the command was sent on
TaskOperationDone(t, ok) ==
    /\ tasks[t].pc = "operation"
    /\ IF ok
       THEN UNCHANGED <<redis_client, is_connected>>
       ELSE /\ redis_client' = "None"
            /\ is_connected' = FALSE
    /\ tasks' = [tasks EXCEPT ![t] = IdleTask]
    /\ last' = [NoCall EXCEPT !.op = "operation", !.id = t, !.raised = ~ok]
    /\ UNCHANGED <<store, redis>>

\* CacheService() has just been constructed; no operation has started
InitTasks ==
    /\ store = <<>>
    /\ redis = <<>>
    /\ redis_client = "None"
    /\ is_connected = FALSE
    /\ last = NoCall
    /\ tasks = [t \in Tasks |-> IdleTask]

NextTasks ==
    \E t \in Tasks, ok \in BOOLEAN :
        \/ TaskStart(t, ok)
        \/ TaskPingDone(t, ok)
        \/ TaskOperationDone(t, ok)

SpecTasks == InitTasks /\ [][NextTasks]_vars

(* C25: the service holds its backend handle in one field and creates it   *)
(* lazily.  Constructing the service creates no handle and connects to     *)
(* nothing; an operation that starts while no handle is held creates one;  *)
(* and, in every interleaving of the operations in flight, a handle is     *)
(* created only by a step that found the field empty.                      *)
C25_Step ==
    /\ last'.op = "from_url" => redis_client = "None"
    /\ (last'.op \in {"from_url", "held"} /\ redis_client = "None") =>
          /\ last'.op = "from_url"
          /\ ~last'.raised => redis_client' = "client"
    /\ (redis_client = "None" /\ redis_client' # "None") => last'.op = "from_url"
    /\ (redis_client # "None" /\ redis_client' # "None") =>
          redis_client' = redis_client

C25_LazySingleHandle ==
    /\ redis_client = "None" /\ ~is_connected
    /\ [][C25_Step]_vars

\* a handle is created while another coroutine is still suspended at a command
\* it sent on an earlier handle, the field having been reset in between
C25_Witness ==
    /\ last.op = "from_url" /\ ~last.raised
    /\ redis_client = "client"
    /\ \E u \in Tasks \ {last.id} :
          tasks[u].pc = "operation" /\ tasks[u].client = "client"

(* C31: in every reachable state, whatever the interleaving of the cache   *)
(* operations in flight and whichever of their commands the backend        *)
(* answers or fails, is_connected is True only while the service holds a   *)
(* client handle.                                                          *)
C31_ConnectedHoldsHandle == is_connected => redis_client # "None"

-----------------------------------------------------------------------------
(* SpecRequests: the request handlers as coroutines that run at the same   *)
(* time.  Each call of the store and each call of the CacheService is one  *)
(* step of the request that makes it; the steps of different requests      *)
(* interleave.  The backend answers every command.                         *)

\* the requests that may be in flight at once; each task serves one request
MaxRequests == 3

Requests == 1..MaxRequests

\* the list query the GET /todos requests ask
ListQueryPage == 1
ListQueryPageSize == 20

\* a task no request has been given to.  req is the route, pc the call the
\* request makes next, id and completed its arguments, data the local it holds
\* between its calls (todo_dict, cache_data), status its response code
IdleRequest ==
    [req |-> "none", pc |-> "idle", id |-> 0, completed |-> PyNone,
     data |-> PyNone, status |-> 0]

\* the service and the backend after a call of the service
AfterCall(c) ==
    /\ redis' = c.redis
    /\ redis_client' = c.client
    /\ is_connected' = c.conn

\* a request arrives: the handler starts with the cache (the reads) or with the
\* store (the writes)
StartRequest(t, req, todo_id, completed) ==
    /\ tasks[t].pc = "idle"
    /\ tasks' = [tasks EXCEPT ![t] =
                    [IdleRequest EXCEPT !.req = req, !.id = todo_id,
                                        !.completed = completed,
                                        !.pc = IF req \in {"GET /{todo_id}", "GET /"}
                                               THEN "cache_get" ELSE "store"]]
    /\ last' = [NoCall EXCEPT !.op = "start", !.id = t]
    /\ UNCHANGED <<store, redis, redis_client, is_connected>>

\* get_todo: cache.get_todo(todo_id); get_todos: cache.get_todos_list(...).  A
\* truthy value is the response, anything else sends the request to the store
RequestCacheGet(t) ==
    LET r == tasks[t]
        g == IF r.req = "GET /{todo_id}" THEN GetTodo(Begin({}), r.id)
             ELSE GetTodosList(Begin({}), FilterParams(r.completed),
                               PaginationParams(ListQueryPage, ListQueryPageSize))
    IN  /\ r.pc = "cache_get"
        /\ AfterCall(g)
        /\ tasks' = [tasks EXCEPT ![t] =
                        IF Truthy(g.res)
                        THEN [r EXCEPT !.pc = "done", !.status = 200, !.data = g.res]
                        ELSE [r EXCEPT !.pc = "store"]]
        /\ last' = [NoCall EXCEPT !.op = "cache_get", !.id = t]
        /\ UNCHANGED store

\* the call of TodoService: get_todo_by_id, get_todos, create_todo, update_todo,
\* delete_todo.  It commits before it returns, and the handler keeps what it
\* returned
RequestStore(t) ==
    LET r == tasks[t] IN
    /\ r.pc = "store"
    /\ CASE r.req = "GET /{todo_id}" ->
              /\ tasks' = [tasks EXCEPT ![t] =
                              IF r.id \in DOMAIN store
                              THEN [r EXCEPT !.pc = "cache_set",
                                             !.data = TodoDict(r.id, store[r.id])]
                              ELSE [r EXCEPT !.pc = "done", !.status = 404]]
              /\ UNCHANGED store
         [] r.req = "GET /" ->
              /\ tasks' = [tasks EXCEPT ![t] =
                              [r EXCEPT !.pc = "cache_set",
                                        !.data = StoreList(store, r.completed, ListQueryPage,
                                                           ListQueryPageSize)]]
              /\ UNCHANGED store
         [] r.req = "POST /" ->
              LET row == [title |-> "a", completed |-> FALSE] IN
              /\ NextId \in TodoIds
              /\ store' = With(store, NextId, row)
              /\ tasks' = [tasks EXCEPT ![t] =
                              [r EXCEPT !.pc = "cache_set", !.id = NextId,
                                        !.data = TodoDict(NextId, row)]]
         [] r.req = "PUT /{todo_id}" ->
              IF r.id \in DOMAIN store
              THEN LET row == [store[r.id] EXCEPT !.completed = r.completed.b] IN
                   /\ store' = With(store, r.id, row)
                   /\ tasks' = [tasks EXCEPT ![t] =
                                   [r EXCEPT !.pc = "delete", !.data = TodoDict(r.id, row)]]
              ELSE /\ tasks' = [tasks EXCEPT ![t] = [r EXCEPT !.pc = "done", !.status = 404]]
                   /\ UNCHANGED store
         [] r.req = "DELETE /{todo_id}" ->
              IF r.id \in DOMAIN store
              THEN /\ store' = Without(store, {r.id})
                   /\ tasks' = [tasks EXCEPT ![t] = [r EXCEPT !.pc = "delete"]]
              ELSE /\ tasks' = [tasks EXCEPT ![t] = [r EXCEPT !.pc = "done", !.status = 404]]
                   /\ UNCHANGED store
    /\ last' = [NoCall EXCEPT !.op = "store", !.id = t]
    /\ UNCHANGED <<redis, redis_client, is_connected>>

\* the request caching what the store returned with a time to live of its own
RequestCacheSetLongTtl(t) ==
    LET r == tasks[t]
        s == IF r.req = "GET /"
             THEN CacheTodosList(Begin({}), FilterParams(r.completed),
                                 PaginationParams(ListQueryPage, ListQueryPageSize),
                                 r.data, PyInt(stats_ttl))
             ELSE CacheTodo(Begin({}), r.id, r.data, PyInt(stats_ttl))
    IN  /\ r.pc = "cache_set"
        /\ AfterCall(s)
        /\ tasks' = [tasks EXCEPT ![t] =
                        IF r.req = "POST /" THEN [r EXCEPT !.pc = "delete_pattern"]
                        ELSE [r EXCEPT !.pc = "done", !.status = 200]]
        /\ last' = [NoCall EXCEPT !.op = "cache_set", !.id = t]
        /\ UNCHANGED store

\* get_todo and create_todo: cache.cache_todo(id, todo_dict); get_todos:
\* cache.cache_todos_list(..., cache_data).  The value is the one the request
\* holds from its call of the store
RequestCacheSet(t) ==
    LET r == tasks[t]
        s == IF r.req = "GET /"
             THEN CacheTodosList(Begin({}), FilterParams(r.completed),
                                 PaginationParams(ListQueryPage, ListQueryPageSize),
                                 r.data, PyNone)
             ELSE CacheTodo(Begin({}), r.id, r.data, PyNone)
    IN  /\ r.pc = "cache_set"
        /\ AfterCall(s)
        /\ tasks' = [tasks EXCEPT ![t] =
                        IF r.req = "POST /" THEN [r EXCEPT !.pc = "delete_pattern"]
                        ELSE [r EXCEPT !.pc = "done", !.status = 200]]
        /\ last' = [NoCall EXCEPT !.op = "cache_set", !.id = t]
        /\ UNCHANGED store

\* _clear_todo_caches: cache.delete(f"todo:{todo_id}")
RequestDelete(t) ==
    LET r == tasks[t] IN
    /\ r.pc = "delete"
    /\ AfterCall(Delete(Begin({}), GenerateTodoKey(r.id)))
    /\ tasks' = [tasks EXCEPT ![t].pc = "delete_pattern"]
    /\ last' = [NoCall EXCEPT !.op = "delete", !.id = t]
    /\ UNCHANGED store

\* _clear_todo_caches: cache.delete_pattern("todos:list:*"); create_todo:
\* cache.invalidate_all_lists()
RequestDeletePattern(t) ==
    LET r == tasks[t] IN
    /\ r.pc = "delete_pattern"
    /\ AfterCall(IF r.req = "POST /" THEN InvalidateAllLists(Begin({}))
                 ELSE DeletePattern(Begin({}), "todos:list:*"))
    /\ tasks' = [tasks EXCEPT ![t].pc = "delete_stats"]
    /\ last' = [NoCall EXCEPT !.op = "delete_pattern", !.id = t]
    /\ UNCHANGED store

\* cache.delete("todos:stats"), the last call of every write; the response
RequestDeleteStats(t) ==
    LET r == tasks[t] IN
    /\ r.pc = "delete_stats"
    /\ AfterCall(Delete(Begin({}), StatsKey))
    /\ tasks' = [tasks EXCEPT ![t] =
                    [r EXCEPT !.pc = "done",
                              !.status = CASE r.req = "POST /" -> 201
                                           [] r.req = "DELETE /{todo_id}" -> 204
                                           [] OTHER -> 200]]
    /\ last' = [NoCall EXCEPT !.op = "delete_stats", !.id = t]
    /\ UNCHANGED store

InitRequests ==
    /\ store = <<>>
    /\ redis = <<>>
    /\ redis_client = "None"
    /\ is_connected = FALSE
    /\ last = NoCall
    /\ tasks = [t \in Requests |-> IdleRequest]

NextRequests ==
    \E t \in Requests :
        \/ StartRequest(t, "POST /", 0, PyNone)
        \/ \E todo_id \in TodoIds : StartRequest(t, "GET /{todo_id}", todo_id, PyNone)
        \/ StartRequest(t, "GET /", 0, PyNone)
        \/ \E todo_id \in TodoIds, completed \in BOOLEAN :
              StartRequest(t, "PUT /{todo_id}", todo_id, PyBool(completed))
        \/ \E todo_id \in TodoIds : StartRequest(t, "DELETE /{todo_id}", todo_id, PyNone)
        \/ RequestCacheGet(t)
        \/ RequestStore(t)
        \/ RequestCacheSet(t)
        \/ RequestDelete(t)
        \/ RequestDeletePattern(t)
        \/ RequestDeleteStats(t)

SpecRequests == InitRequests /\ [][NextRequests]_vars

\* no request is in flight
Quiescent == \A t \in Requests : tasks[t].pc \in {"idle", "done"}

ListQueryKey == GenerateListKey(FilterParams(PyNone),
                                PaginationParams(ListQueryPage, ListQueryPageSize))

\* the value cached under the key
Cached(key) == JsonLoads(redis[key].val).val

(* C30, as stated: with a backend that answers and handlers running at the *)
(* same time, whenever no request is in flight every cached entity value   *)
(* equals the store's record of that id, no entity key is there for an id  *)
(* the store does not hold, and every cached list equals what the store    *)
(* answers to its query.                                                   *)
C30_QuiescentCoherence ==
    Quiescent =>
        /\ \A id \in TodoIds :
              GenerateTodoKey(id) \in DOMAIN redis =>
                  /\ id \in DOMAIN store
                  /\ PyEq(Cached(GenerateTodoKey(id)), TodoDict(id, store[id]))
        /\ ListQueryKey \in DOMAIN redis =>
              PyEq(Cached(ListQueryKey),
                   StoreList(store, PyNone, ListQueryPage, ListQueryPageSize))

(* C30, amended: whenever no request is in flight, every cached entity     *)
(* value and every cached list is the value that a completed request of    *)
(* the run (a GET that missed, or the POST that created the todo) got from *)
(* the store and cached, and is stored with the default TTL; it may differ *)
(* from what the store holds now.                                          *)
C30_CachedWasRead ==
    Quiescent =>
        /\ \A id \in TodoIds :
              GenerateTodoKey(id) \in DOMAIN redis =>
                  /\ redis[GenerateTodoKey(id)].ttl = default_ttl
                  /\ \E t \in Requests :
                        /\ tasks[t].pc = "done"
                        /\ tasks[t].req \in {"GET /{todo_id}", "POST /"}
                        /\ tasks[t].id = id
                        /\ PyEq(Cached(GenerateTodoKey(id)), tasks[t].data)
        /\ ListQueryKey \in DOMAIN redis =>
              /\ redis[ListQueryKey].ttl = default_ttl
              /\ \E t \in Requests :
                    /\ tasks[t].pc = "done"
                    /\ tasks[t].req = "GET /"
                    /\ PyEq(Cached(ListQueryKey), tasks[t].data)

\* no request is in flight and the cache holds, for a todo of the store, a
\* record that differs from the store's: a GET read it before an update
\* committed and cached it after the update had cleared the key
C30_Witness ==
    /\ Quiescent
    /\ \E id \in DOMAIN store :
          /\ GenerateTodoKey(id) \in DOMAIN redis
          /\ ~PyEq(Cached(GenerateTodoKey(id)), TodoDict(id, store[id]))
          /\ \E t, u \in Requests :
                /\ tasks[t].req = "GET /{todo_id}" /\ tasks[t].status = 200
                /\ PyEq(Cached(GenerateTodoKey(id)), tasks[t].data)
                /\ tasks[u].req = "PUT /{todo_id}" /\ tasks[u].status = 200
====
